---------------------------- MODULE Spec2Model ----------------------------
(***************************************************************************)
(* Binary black hole collision simulator (black_hole_collision).          *)
(*                                                                         *)
(* The module models run_simulation (inspiral -> merger -> ringdown), the *)
(* integrator, the merger/remnant model and the render timeline.          *)
(*                                                                         *)
(* Numbers.  A C++ double is modelled as a fixed-point integer: the real  *)
(* value x is the integer x * Scale, and every product and quotient is    *)
(* rounded to the nearest multiple of 1/Scale (as a double rounds to the  *)
(* nearest representable value).  Thresholds of the code that lie below   *)
(* the resolution (1e-10, 1e-30) become the smallest positive value.      *)
(***************************************************************************)
EXTENDS Integers, Sequences, FiniteSets, TLC

---------------------------------------------------------------------------
(* Fixed-point arithmetic                                                  *)

Scale == 1000

Abs(x) == IF x < 0 THEN -x ELSE x
Sgn(x) == IF x < 0 THEN -1 ELSE IF x > 0 THEN 1 ELSE 0
Min(a, b) == IF b < a THEN b ELSE a
Max(a, b) == IF a < b THEN b ELSE a

\* std::clamp(v, lo, hi)
Clamp(v, lo, hi) == IF v < lo THEN lo ELSE IF hi < v THEN hi ELSE v

\* a / b for integers, rounded to nearest (half up); b > 0
RDiv(a, b) == (a + b \div 2) \div b

\* the decimal literal n/d of the source as a fixed-point value
Dec(n, d) == RDiv(n * Scale, d)

\* x * y of two fixed-point values
FMul(x, y) == (x \div Scale) * y + RDiv((x % Scale) * y, Scale)

\* x / y of two fixed-point values; y # 0
FDivPos(x, y) == (x \div y) * Scale + RDiv((x % y) * Scale, y)
FDiv(x, y) == IF y < 0 THEN FDivPos(-x, -y) ELSE FDivPos(x, y)

RECURSIVE SqrtSearch(_, _, _)
SqrtSearch(n, lo, hi) ==
    IF lo >= hi THEN lo
    ELSE LET mid == (lo + hi + 1) \div 2
         IN  IF mid * mid <= n THEN SqrtSearch(n, mid, hi)
             ELSE SqrtSearch(n, lo, mid - 1)

\* floor of the square root of a natural number below 2^31
ISqrt(n) == SqrtSearch(n, 0, 46340)

\* std::sqrt of a fixed-point value x >= 0
FSqrt(x) ==
    IF x <= 2147483647 \div Scale THEN ISqrt(x * Scale)
    ELSE RDiv(ISqrt(x) * ISqrt(Scale * 10000), 100)

RECURSIVE CbrtSearch(_, _, _)
CbrtSearch(n, lo, hi) ==
    IF lo >= hi THEN lo
    ELSE LET mid == (lo + hi + 1) \div 2
         IN  IF mid * mid * mid <= n THEN CbrtSearch(n, mid, hi)
             ELSE CbrtSearch(n, lo, mid - 1)

\* floor of the cube root of a natural number below 2^31
ICbrt(n) == CbrtSearch(n, 0, 1290)

\* std::cbrt of a fixed-point value
CbrtAbs(A) ==
    IF (A <= 2147483647 \div Scale) /\ (A * Scale <= 2147483647 \div Scale)
    THEN ICbrt(A * Scale * Scale)
    ELSE IF A <= 2147483647 \div Scale
    THEN RDiv(ICbrt(A * Scale) * ICbrt(Scale * 1000000), 100)
    ELSE RDiv(ICbrt(A) * ICbrt(Scale * 1000) * ICbrt(Scale * 1000), 100)
FCbrt(x) == IF x < 0 THEN -CbrtAbs(-x) ELSE CbrtAbs(x)

\* infinity (x / 0) and not-a-number (0 / 0, 0 * infinity)
Inf == 2147483647
NaN == -2147483647 - 1

\* x / y where y may be zero
FDivZ(x, y) == IF y # 0 THEN FDiv(x, y) ELSE IF x = 0 THEN NaN ELSE Sgn(x) * Inf

Pi == Dec(314159, 100000)
Ln2 == Dec(693147, 1000000)

RECURSIVE Pow2(_)
Pow2(k) == IF k <= 0 THEN 1 ELSE 2 * Pow2(k - 1)

\* e^r for 0 <= r < ln 2 (series to the fourth order)
ExpSeries(r) ==
    LET r2 == FMul(r, r)
        r3 == FMul(r2, r)
        r4 == FMul(r3, r)
    IN  Scale + r + RDiv(r2, 2) + RDiv(r3, 6) + RDiv(r4, 24)

\* std::exp of a fixed-point value (x below 14)
FExp(x) ==
    LET y == Abs(x)
        k == y \div Ln2
        r == y - k * Ln2
    IN  IF x >= 0 THEN ExpSeries(r) * Pow2(k)
        ELSE IF k > 30 THEN 0
        ELSE RDiv(FDiv(Scale, ExpSeries(r)), Pow2(k))

RECURSIVE LnNorm(_, _)
\* <<m, k>> with x = m * 2^k and Scale <= m < 2 * Scale; x > 0
LnNorm(x, k) ==
    IF x >= 2 * Scale THEN LnNorm(RDiv(x, 2), k + 1)
    ELSE IF x < Scale THEN LnNorm(2 * x, k - 1)
    ELSE <<x, k>>

\* std::log of a fixed-point value x > 0
FLn(x) ==
    LET mk == LnNorm(x, 0)
        m == mk[1]
        z == FDiv(m - Scale, m + Scale)
        z2 == FMul(z, z)
        z3 == FMul(z2, z)
        z5 == FMul(z3, z2)
    IN  mk[2] * Ln2 + 2 * (z + RDiv(z3, 3) + RDiv(z5, 5))

RECURSIVE FPowInt(_, _)
FPowInt(x, n) == IF n = 0 THEN Scale ELSE FMul(FPowInt(x, n - 1), x)

\* std::pow(x, y) for x >= 0
FPow(x, y) ==
    IF y >= 0 /\ y % Scale = 0 THEN FPowInt(x, y \div Scale)
    ELSE IF x = 0 THEN 0
    ELSE FExp(FMul(y, FLn(x)))

\* sin on [0, pi]
SinHalf(x) ==
    LET p == FMul(x, Pi - x)
    IN  FDiv(16 * p, 5 * FMul(Pi, Pi) - 4 * p)

\* std::sin of a fixed-point angle
FSin(x) ==
    LET y == x % (2 * Pi)
    IN  IF y <= Pi THEN SinHalf(y) ELSE -SinHalf(y - Pi)

\* std::cos of a fixed-point angle
FCos(x) == FSin(x + RDiv(Pi, 2))

\* atan on [0, 1]
AtanUnit(q) == FMul(q, RDiv(Pi, 4)) + FMul(FMul(Dec(273, 1000), q), Scale - q)

\* std::atan2(y, x), in (-pi, pi]
FAtan2(y, x) ==
    LET ay == Abs(y)
        ax == Abs(x)
        a == IF ax = 0 /\ ay = 0 THEN 0
             ELSE IF ay <= ax THEN AtanUnit(FDiv(ay, ax))
             ELSE RDiv(Pi, 2) - AtanUnit(FDiv(ax, ay))
        b == IF x < 0 THEN Pi - a ELSE a
    IN  IF y < 0 THEN -b ELSE b

---------------------------------------------------------------------------
(* glm::dvec3                                                              *)

Vec(x, y, z) == <<x, y, z>>
Zero3 == <<0, 0, 0>>
VAdd(u, v) == <<u[1] + v[1], u[2] + v[2], u[3] + v[3]>>
VSub(u, v) == <<u[1] - v[1], u[2] - v[2], u[3] - v[3]>>
VNeg(u) == <<-u[1], -u[2], -u[3]>>
\* k * v for a fixed-point scalar k
VScale(k, v) == <<FMul(k, v[1]), FMul(k, v[2]), FMul(k, v[3])>>
\* v / k for a fixed-point scalar k # 0
VDivS(v, k) == <<FDiv(v[1], k), FDiv(v[2], k), FDiv(v[3], k)>>
Dot(u, v) == FMul(u[1], v[1]) + FMul(u[2], v[2]) + FMul(u[3], v[3])
Cross(u, v) ==
    << FMul(u[2], v[3]) - FMul(u[3], v[2]),
       FMul(u[3], v[1]) - FMul(u[1], v[3]),
       FMul(u[1], v[2]) - FMul(u[2], v[1]) >>
Length(v) ==
    IF Abs(v[1]) < 26000 /\ Abs(v[2]) < 26000 /\ Abs(v[3]) < 26000
    THEN ISqrt(v[1] * v[1] + v[2] * v[2] + v[3] * v[3])
    ELSE FSqrt(Dot(v, v))
NaN3 == <<NaN, NaN, NaN>>
\* std::isfinite
IsFinite(x) == x # NaN /\ x # Inf /\ x # -Inf
Finite3(v) == IsFinite(v[1]) /\ IsFinite(v[2]) /\ IsFinite(v[3])
\* glm::normalize: v * inversesqrt(dot(v, v)); 0 * infinity for the zero vector
Normalize(v) == IF Length(v) = 0 THEN NaN3 ELSE VDivS(v, Length(v))
\* u + k * w, not-a-number as soon as w is
VAddScaled(u, k, w) == IF w = NaN3 THEN NaN3 ELSE VAdd(u, VScale(k, w))


---------------------------------------------------------------------------
(* black_hole.h, merger.cpp: should_merge                                  *)

\* 1e-10 at the resolution of the model: the smallest positive value
SepEps == 1

BlackHole(mass, chi, position, velocity, spin_axis) ==
    [mass |-> mass, chi |-> chi, position |-> position,
     velocity |-> velocity, spin_axis |-> spin_axis]

schwarzschild_radius(bh) == 2 * bh.mass

DefaultCriticalFactor == Dec(5, 10)

\* should_merge with < for <= and >= for >
should_merge_strict(bh1, bh2, critical_factor) ==
    LET separation == Length(VSub(bh1.position, bh2.position))
        r_critical == RDiv(FMul(critical_factor,
                               schwarzschild_radius(bh1) + schwarzschild_radius(bh2)), 2)
        v == VSub(bh1.velocity, bh2.velocity)
        v_mag == Length(v)
    IN  separation < r_critical \/ v_mag >= 2 * Scale

should_merge(bh1, bh2, critical_factor) ==
    LET separation == Length(VSub(bh1.position, bh2.position))
        r_critical == RDiv(FMul(critical_factor,
                               schwarzschild_radius(bh1) + schwarzschild_radius(bh2)), 2)
        v == VSub(bh1.velocity, bh2.velocity)
        v_mag == Length(v)
    IN  separation <= r_critical \/ v_mag > 2 * Scale

---------------------------------------------------------------------------
(* physics.cpp: compute_relative_acceleration                              *)

AccelZero == [a_newtonian |-> Zero3, a_1pn |-> Zero3, a_2pn |-> Zero3, a_25pn |-> Zero3]

AccelTotal(acc) == VAdd(VAdd(VAdd(acc.a_newtonian, acc.a_1pn), acc.a_2pn), acc.a_25pn)

\* the terms take Mr = M / r_mag and rdot2 = rdot^2 from the caller
Accel1PN(n, v, eta, r_mag, v2, rdot, Mr) ==
    LET n_coeff == -v2 + FMul(2 * (2 * Scale + eta), Mr)
                   + FMul(FMul(FMul(Dec(15, 10), eta), rdot), rdot)
        v_coeff == FMul(2 * (2 * Scale - eta), rdot)
    IN  VScale(FDiv(-Mr, r_mag), VAdd(VScale(n_coeff, n), VScale(v_coeff, v)))

Accel2PN(n, v, eta, r_mag, v2, rdot, Mr, Mr2, rdot2, v4) ==
    LET n_coeff ==
            FMul(-2 * (2 * Scale + 25 * eta + 2 * FMul(eta, eta)), Mr2)
            + FMul(FMul(FMul(Dec(15, 10), eta), 3 * Scale - 4 * eta), v4)
            + FMul(FMul(FMul(FMul(Dec(5, 10), eta), 13 * Scale - 4 * eta), Mr), v2)
            - FMul(FMul(2 * Scale + 15 * eta - 2 * FMul(eta, eta), Mr), rdot2)
            - FMul(FMul(FMul(FMul(Dec(1875, 1000), eta), Scale - 3 * eta), rdot2), rdot2)
            + FMul(FMul(FMul(FMul(Dec(15, 10), eta), 3 * Scale - 4 * eta), v2), rdot2)
        v_coeff ==
            FMul(FMul(FMul(FMul(-Dec(5, 10), eta), 15 * Scale + 4 * eta), v2), rdot)
            + FMul(FMul(4 * Scale + RDiv(41 * eta, 4) + FMul(eta, eta), Mr), rdot)
            + FMul(FMul(FMul(FMul(Dec(15, 10), eta), 3 * Scale + 2 * eta), rdot), rdot2)
    IN  VScale(FDiv(-Mr, r_mag), VAdd(VScale(n_coeff, n), VScale(v_coeff, v)))

Accel25PN(n, v, M, eta, r2, v2, rdot, Mr, rdot2) ==
    LET prefactor == FDiv(FMul(FMul(FMul(Dec(8, 5), eta), M), Mr), r2)
        n_coeff == FMul(rdot, 18 * v2 + FMul(Dec(2, 3), Mr) - 25 * rdot2)
        v_coeff == -(6 * v2 - 2 * Mr - 15 * rdot2)
    IN  VScale(prefactor, VAdd(VScale(n_coeff, n), VScale(v_coeff, v)))

\* the four terms, given the locals n, rdot, Mr of compute_relative_acceleration
AccelTerms(n, v, M, eta, r_mag, r2, v2, rdot, Mr, enable_1pn, enable_2pn, enable_25pn) ==
    [a_newtonian |-> VScale(FDiv(-M, r2), n),
     a_1pn |-> IF enable_1pn THEN Accel1PN(n, v, eta, r_mag, v2, rdot, Mr) ELSE Zero3,
     a_2pn |-> IF enable_2pn
               THEN Accel2PN(n, v, eta, r_mag, v2, rdot, Mr,
                             FMul(Mr, Mr), FMul(rdot, rdot), FMul(v2, v2))
               ELSE Zero3,
     a_25pn |-> IF enable_25pn
                THEN Accel25PN(n, v, M, eta, r2, v2, rdot, Mr, FMul(rdot, rdot))
                ELSE Zero3]

\* past the separation guard: n = r / r_mag
AccelAlong(n, v, M, eta, r_mag, r2, enable_1pn, enable_2pn, enable_25pn) ==
    AccelTerms(n, v, M, eta, r_mag, r2, Dot(v, v), Dot(n, v), FDiv(M, r_mag),
               enable_1pn, enable_2pn, enable_25pn)

\* the separation guard, given M, eta, r2 and r_mag
AccelAt(r, v, M, eta, r2, r_mag, enable_1pn, enable_2pn, enable_25pn) ==
    IF r_mag < SepEps THEN AccelZero
    ELSE AccelAlong(VDivS(r, r_mag), v, M, eta, r_mag, r2,
                    enable_1pn, enable_2pn, enable_25pn)

compute_relative_acceleration(r, v, m1, m2, enable_1pn, enable_2pn, enable_25pn) ==
    AccelAt(r, v, m1 + m2, FDiv(FMul(m1, m2), FMul(m1 + m2, m1 + m2)),
            Dot(r, r), FSqrt(Dot(r, r)), enable_1pn, enable_2pn, enable_25pn)

---------------------------------------------------------------------------
(* simulation.cpp: make_deriv_func;  integrator.cpp: rk4_step,             *)
(* adaptive_timestep                                                       *)

BinaryState(pos1, vel1, pos2, vel2, time) ==
    [pos1 |-> pos1, vel1 |-> vel1, pos2 |-> pos2, vel2 |-> vel2, time |-> time]

\* the closure returned by make_deriv_func: its captured values
make_deriv_func(m1, m2, pn1, pn2, pn25) ==
    [m1 |-> m1, m2 |-> m2, pn1 |-> pn1, pn2 |-> pn2, pn25 |-> pn25]

\* DerivOf giving the second body the acceleration of the first, unnegated
DerivOfSameSign(deriv, state, M, a_rel) ==
    [dpos1 |-> state.vel1,
     dvel1 |-> VScale(FDiv(deriv.m2, M), a_rel),
     dpos2 |-> state.vel2,
     dvel2 |-> VScale(FDiv(deriv.m1, M), a_rel)]

\* the derivative assembled from the relative acceleration a_rel
DerivOf(deriv, state, M, a_rel) ==
    [dpos1 |-> state.vel1,
     dvel1 |-> VScale(FDiv(deriv.m2, M), a_rel),
     dpos2 |-> state.vel2,
     dvel2 |-> VScale(-FDiv(deriv.m1, M), a_rel)]

\* the body of the closure: the derivative of a state
ApplyDeriv(deriv, state) ==
    DerivOf(deriv, state, deriv.m1 + deriv.m2,
            AccelTotal(compute_relative_acceleration(
                           VSub(state.pos1, state.pos2), VSub(state.vel1, state.vel2),
                           deriv.m1, deriv.m2, deriv.pn1, deriv.pn2, deriv.pn25)))

state_add(s, d, dt) ==
    [pos1 |-> VAdd(s.pos1, VScale(dt, d.dpos1)),
     vel1 |-> VAdd(s.vel1, VScale(dt, d.dvel1)),
     pos2 |-> VAdd(s.pos2, VScale(dt, d.dpos2)),
     vel2 |-> VAdd(s.vel2, VScale(dt, d.dvel2)),
     time |-> s.time + dt]

\* k1 + 2 k2 + 2 k3 + k4
RK4Sum(a, b, c, d) == VAdd(VAdd(VAdd(a, VScale(2 * Scale, b)), VScale(2 * Scale, c)), d)

\* state + (dt / 6) * (k1 + 2 k2 + 2 k3 + k4)
rk4_combine(state, dt, h, k1, k2, k3, k4) ==
    [time |-> state.time + dt,
     pos1 |-> VAdd(state.pos1, VScale(h, RK4Sum(k1.dpos1, k2.dpos1, k3.dpos1, k4.dpos1))),
     vel1 |-> VAdd(state.vel1, VScale(h, RK4Sum(k1.dvel1, k2.dvel1, k3.dvel1, k4.dvel1))),
     pos2 |-> VAdd(state.pos2, VScale(h, RK4Sum(k1.dpos2, k2.dpos2, k3.dpos2, k4.dpos2))),
     vel2 |-> VAdd(state.vel2, VScale(h, RK4Sum(k1.dvel2, k2.dvel2, k3.dvel2, k4.dvel2)))]

rk4_k4(state, dt, deriv, k1, k2, k3) ==
    rk4_combine(state, dt, FDiv(dt, 6 * Scale), k1, k2, k3,
                ApplyDeriv(deriv, state_add(state, k3, dt)))

rk4_k3(state, dt, deriv, k1, k2) ==
    rk4_k4(state, dt, deriv, k1, k2,
           ApplyDeriv(deriv, state_add(state, k2, FMul(dt, Dec(5, 10)))))

rk4_k2(state, dt, deriv, k1) ==
    rk4_k3(state, dt, deriv, k1,
           ApplyDeriv(deriv, state_add(state, k1, FMul(dt, Dec(5, 10)))))

\* rk4_step that leaves state.time where it was
rk4_step_frozen(state, dt, deriv) ==
    [rk4_k2(state, dt, deriv, ApplyDeriv(deriv, state)) EXCEPT !.time = state.time]

rk4_step(state, dt, deriv) == rk4_k2(state, dt, deriv, ApplyDeriv(deriv, state))

IntegratorConfig(dt_initial, dt_min, dt_max, safety_factor, adaptive) ==
    [dt_initial |-> dt_initial, dt_min |-> dt_min, dt_max |-> dt_max,
     safety_factor |-> safety_factor, adaptive |-> adaptive]

\* the period-based step at a separation of at least 1e-10
PeriodStep(separation, config, total_mass) ==
    LET orbital_period ==
            FMul(2 * Pi, FSqrt(FDiv(FMul(FMul(separation, separation), separation),
                                    total_mass)))
        dt0 == FMul(config.safety_factor, orbital_period)
        r_isco == 6 * total_mass
        scale == FDiv(separation, 2 * r_isco)
    IN  IF separation < 2 * r_isco THEN FMul(dt0, FMul(scale, scale)) ELSE dt0

\* TimestepAt without the final clamp
TimestepUnclamped(separation, config, total_mass) ==
    IF separation < SepEps THEN config.dt_min
    ELSE PeriodStep(separation, config, total_mass)

TimestepAt(separation, config, total_mass) ==
    IF separation < SepEps THEN config.dt_min
    ELSE Clamp(PeriodStep(separation, config, total_mass), config.dt_min, config.dt_max)

adaptive_timestep(state, config, total_mass) ==
    IF ~config.adaptive THEN config.dt_initial
    ELSE TimestepAt(Length(VSub(state.pos1, state.pos2)), config, total_mass)


---------------------------------------------------------------------------
(* physics.cpp: compute_orbital_params, compute_gw_strain,                 *)
(* time_to_merger_estimate                                                 *)

OrbitalZero ==
    [separation |-> 0, orbital_frequency |-> 0, orbital_phase |-> 0,
     radial_velocity |-> 0, velocity_param |-> 0, reduced_mass |-> 0,
     total_mass |-> 0, symmetric_mass_ratio |-> 0, chirp_mass |-> 0,
     energy |-> 0, angular_momentum |-> 0]

\* the mass-only fields
MassParams(total_mass, reduced_mass) ==
    [OrbitalZero EXCEPT
       !.total_mass = total_mass,
       !.reduced_mass = reduced_mass,
       !.symmetric_mass_ratio = FDiv(reduced_mass, total_mass),
       !.chirp_mass = FMul(total_mass, FPow(FDiv(reduced_mass, total_mass), Dec(6, 10)))]

\* the fields of a separation of at least 1e-10
OrbitFields(p0, r, v, separation, angular_momentum, orbital_frequency) ==
    [p0 EXCEPT
       !.separation = separation,
       !.radial_velocity = Dot(v, VDivS(r, separation)),
       !.angular_momentum = angular_momentum,
       !.orbital_frequency = orbital_frequency,
       !.velocity_param = IF orbital_frequency > 0
                          THEN FCbrt(FMul(p0.total_mass, orbital_frequency))
                          ELSE 0,
       !.orbital_phase = FAtan2(r[3], r[1]),
       !.energy = FMul(FMul(Dec(5, 10), p0.reduced_mass), Dot(v, v))
                  - FDiv(FMul(p0.reduced_mass, p0.total_mass), separation)]

OrbitMomentum(p0, r, v, separation, angular_momentum) ==
    OrbitFields(p0, r, v, separation, angular_momentum,
                FDiv(angular_momentum,
                     FMul(FMul(p0.reduced_mass, separation), separation)))

\* OrbitAt with the kinetic energy computed ahead of the separation guard
OrbitAtKinetic(p0, r, v, separation) ==
    IF separation < SepEps
    THEN [p0 EXCEPT !.separation = separation,
                    !.energy = FMul(FMul(Dec(5, 10), p0.reduced_mass), Dot(v, v))]
    ELSE OrbitMomentum(p0, r, v, separation,
                       Length(VScale(p0.reduced_mass, Cross(r, v))))

\* the separation guard
OrbitAt(p0, r, v, separation) ==
    IF separation < SepEps THEN [p0 EXCEPT !.separation = separation]
    ELSE OrbitMomentum(p0, r, v, separation,
                       Length(VScale(p0.reduced_mass, Cross(r, v))))

OrbitOf(p0, r, v) == OrbitAt(p0, r, v, Length(r))

compute_orbital_params(bh1, bh2) ==
    OrbitOf(MassParams(bh1.mass + bh2.mass,
                       FDiv(FMul(bh1.mass, bh2.mass), bh1.mass + bh2.mass)),
            VSub(bh1.position, bh2.position), VSub(bh1.velocity, bh2.velocity))

GWZero == [h_plus |-> 0, h_cross |-> 0, amplitude |-> 0, frequency |-> 0]

\* sqrt(h_plus^2 + h_cross^2)
StrainAmplitude(h_plus, h_cross) ==
    IF h_plus = NaN \/ h_cross = NaN THEN NaN
    ELSE IF Abs(h_plus) = Inf \/ Abs(h_cross) = Inf THEN Inf
    ELSE FSqrt(FMul(h_plus, h_plus) + FMul(h_cross, h_cross))

\* a GWStrain from its two polarisations
Strain(h_plus, h_cross, frequency) ==
    [h_plus |-> h_plus, h_cross |-> h_cross,
     amplitude |-> StrainAmplitude(h_plus, h_cross),
     frequency |-> frequency]

\* the quadrupole polarisations from prefactor and cos(iota)
Quadrupole(p, prefactor, cos_iota) ==
    Strain(FMul(RDiv(FMul(-prefactor, Scale + FMul(cos_iota, cos_iota)), 2),
                FCos(2 * p.orbital_phase)),
           FMul(FMul(-prefactor, cos_iota), FSin(2 * p.orbital_phase)),
           FDiv(p.orbital_frequency, Pi))

\* v_param = (M omega)^(1/3); prefactor = 2 mu v^2 / D
StrainAt(p, v_param, observer_distance, observer_inclination) ==
    Quadrupole(p, FDiv(FMul(2 * p.reduced_mass, FMul(v_param, v_param)),
                       observer_distance),
               FCos(observer_inclination))

\* the strain of the orbit p
StrainOf(p, observer_distance, observer_inclination) ==
    IF p.separation < SepEps \/ observer_distance < SepEps THEN GWZero
    ELSE StrainAt(p, FCbrt(FMul(p.total_mass, p.orbital_frequency)),
                  observer_distance, observer_inclination)

compute_gw_strain(bh1, bh2, observer_distance, observer_inclination) ==
    StrainOf(compute_orbital_params(bh1, bh2), observer_distance, observer_inclination)

time_to_merger_estimate(eta, total_mass, separation) ==
    FDiv(FMul(FDiv(5 * Scale, 256 * Scale), FPow(separation, 4 * Scale)),
         FMul(eta, FPow(total_mass, 3 * Scale)))

---------------------------------------------------------------------------
(* merger.cpp: remnant fits, quasinormal mode, ringdown strain             *)

\* final_mass_fraction without the special case of the calibration point
final_mass_fraction_fitted(eta, chi1, chi2) ==
    LET chi_eff == FMul(Dec(5, 10), chi1 + chi2)
        p0 == Dec(4827, 100000)
        p1 == Dec(1707, 100000)
        p2 == -Dec(308, 10000)
        E_rad_base == FMul(eta, p0 + FMul(FMul(4 * Scale, eta), p0))
        spin_corr == Scale + FDiv(FMul(p1, chi_eff),
                                  Scale + FMul(FMul(p2, chi_eff), chi_eff))
        E_rad == Clamp(FMul(E_rad_base, spin_corr), 0, Dec(1, 10))
    IN  Scale - E_rad

final_mass_fraction(eta, chi1, chi2) ==
    LET chi_eff == FMul(Dec(5, 10), chi1 + chi2)
        p0 == Dec(4827, 100000)
        p1 == Dec(1707, 100000)
        p2 == -Dec(308, 10000)
        E_rad_base == FMul(eta, p0 + FMul(FMul(4 * Scale, eta), p0))
        spin_corr == Scale + FDiv(FMul(p1, chi_eff),
                                  Scale + FMul(FMul(p2, chi_eff), chi_eff))
        E_rad == Clamp(FMul(E_rad_base, spin_corr), 0, Dec(1, 10))
    IN  IF Abs(eta - Dec(25, 100)) < Dec(1, 100) /\ Abs(chi_eff) < Dec(1, 100)
        THEN Scale - Dec(35, 1000)
        ELSE Scale - E_rad

\* SpinFit without its clamp
SpinFitUnclamped(eta, delta_m, a_init) ==
    LET s4 == -Dec(1229, 10000)
        s5 == Dec(4537, 10000)
        t0 == -Dec(28904, 10000)
        t2 == -Dec(35171, 10000)
        t3 == Dec(25763, 10000)
        L_orb == FMul(FMul(2 * Scale, FSqrt(3 * Scale)), eta)
                 + FMul(FMul(t2, eta), eta)
                 + FMul(FMul(FMul(t3, eta), eta), eta)
        a_spin == a_init
                  + FMul(FMul(FMul(s4, a_init), a_init), eta)
                  + FMul(FMul(FMul(s5, a_init), eta), delta_m)
                  + FMul(FMul(t0, eta), a_init)
    IN  a_spin + L_orb

\* the fit, given delta_m and a_init
SpinFit(eta, delta_m, a_init) ==
    LET s4 == -Dec(1229, 10000)
        s5 == Dec(4537, 10000)
        t0 == -Dec(28904, 10000)
        t2 == -Dec(35171, 10000)
        t3 == Dec(25763, 10000)
        L_orb == FMul(FMul(2 * Scale, FSqrt(3 * Scale)), eta)
                 + FMul(FMul(t2, eta), eta)
                 + FMul(FMul(FMul(t3, eta), eta), eta)
        a_spin == a_init
                  + FMul(FMul(FMul(s4, a_init), a_init), eta)
                  + FMul(FMul(FMul(s5, a_init), eta), delta_m)
                  + FMul(FMul(t0, eta), a_init)
    IN  Clamp(a_spin + L_orb, 0, Dec(998, 1000))

SpinOf(eta, chi1, chi2, delta_m) ==
    SpinFit(eta, delta_m,
            FMul(Dec(5, 10), FMul(Scale + delta_m, chi1) + FMul(Scale - delta_m, chi2)))

final_spin(eta, chi1, chi2) == SpinOf(eta, chi1, chi2, FSqrt(Scale - 4 * eta))

\* the mode of angular frequency omega_qnm and quality factor Q
QNMOf(omega_qnm, Q, merger_amplitude) ==
    [frequency |-> FDiv(omega_qnm, 2 * Pi),
     damping_time |-> FDiv(Q, omega_qnm),
     amplitude |-> FMul(merger_amplitude, Dec(15, 10)),
     phase |-> 0]

QNMFit(one_minus_af, remnant_mass, merger_amplitude) ==
    LET f1 == Dec(15251, 10000)
        f2 == -Dec(11568, 10000)
        f3 == Dec(1292, 10000)
        q1 == Dec(7, 10)
        q2 == Dec(14187, 10000)
        q3 == -Dec(499, 1000)
    IN  QNMOf(FDiv(f1 + FMul(f2, FPow(one_minus_af, f3)), remnant_mass),
              q1 + FMul(q2, FPow(one_minus_af, q3)), merger_amplitude)

compute_qnm_222(remnant_mass, remnant_spin, merger_amplitude) ==
    QNMFit(IF Scale - remnant_spin < SepEps THEN SepEps ELSE Scale - remnant_spin,
           remnant_mass, merger_amplitude)

\* DampedStrain without the cross polarization
DampedStrainPlusOnly(qnm, envelope, phase, cos_iota, observer_distance) ==
    Strain(FDivZ(FMul(RDiv(FMul(envelope, Scale + FMul(cos_iota, cos_iota)), 2),
                      FCos(phase)),
                 observer_distance),
           0,
           qnm.frequency)

\* the damped sinusoid of envelope and phase seen at distance observer_distance
DampedStrain(qnm, envelope, phase, cos_iota, observer_distance) ==
    Strain(FDivZ(FMul(RDiv(FMul(envelope, Scale + FMul(cos_iota, cos_iota)), 2),
                      FCos(phase)),
                 observer_distance),
           FDivZ(FMul(FMul(envelope, cos_iota), FSin(phase)), observer_distance),
           qnm.frequency)

\* ringdown_strain setting the frequency ahead of the guard on t_after_merger
ringdown_strain_tagged(qnm, t_after_merger, observer_distance, observer_inclination) ==
    IF t_after_merger < 0 THEN [GWZero EXCEPT !.frequency = qnm.frequency]
    ELSE DampedStrain(qnm,
                      FMul(qnm.amplitude,
                           FExp(FDiv(-t_after_merger, qnm.damping_time))),
                      FMul(FMul(2 * Pi, qnm.frequency), t_after_merger) + qnm.phase,
                      FCos(observer_inclination), observer_distance)

\* ringdown_strain with the sign of the exponent lost
ringdown_strain_growing(qnm, t_after_merger, observer_distance, observer_inclination) ==
    IF t_after_merger < 0 THEN GWZero
    ELSE DampedStrain(qnm,
                      FMul(qnm.amplitude,
                           FExp(FDiv(t_after_merger, qnm.damping_time))),
                      FMul(FMul(2 * Pi, qnm.frequency), t_after_merger) + qnm.phase,
                      FCos(observer_inclination), observer_distance)

ringdown_strain(qnm, t_after_merger, observer_distance, observer_inclination) ==
    IF t_after_merger < 0 THEN GWZero
    ELSE DampedStrain(qnm,
                      FMul(qnm.amplitude,
                           FExp(FDiv(-t_after_merger, qnm.damping_time))),
                      FMul(FMul(2 * Pi, qnm.frequency), t_after_merger) + qnm.phase,
                      FCos(observer_inclination), observer_distance)

\* recoil_kick adding the two contributions instead of combining them in quadrature
recoil_kick_linear(eta, chi1, chi2) ==
    LET A == 12000 * Scale
        B == -Dec(93, 100)
        delta == FSqrt(Max(0, Scale - 4 * eta))
        v_mass == FMul(FMul(FMul(FMul(A, eta), eta), delta), Scale + FMul(B, eta))
        delta_chi == chi1 - chi2
        v_spin == FMul(FMul(3678 * Scale, eta), delta_chi)
        v_total_kms == v_mass + v_spin
    IN  RDiv(v_total_kms, 299800)

recoil_kick(eta, chi1, chi2) ==
    LET A == 12000 * Scale
        B == -Dec(93, 100)
        delta == FSqrt(Max(0, Scale - 4 * eta))
        v_mass == FMul(FMul(FMul(FMul(A, eta), eta), delta), Scale + FMul(B, eta))
        delta_chi == chi1 - chi2
        v_spin == FMul(FMul(3678 * Scale, eta), delta_chi)
        v_total_kms == FSqrt(FMul(v_mass, v_mass) + FMul(v_spin, v_spin))
    IN  RDiv(v_total_kms, 299800)

\* the remnant of mass `mass` kicked by kick_velocity along L_hat
RemnantOf(bh1, bh2, M, eta, mass, kick_velocity) ==
    [mass |-> mass,
     spin |-> final_spin(eta, bh1.chi, bh2.chi),
     energy_radiated |-> Scale - FDiv(mass, M),
     kick_velocity |-> kick_velocity,
     position |-> VDivS(VAdd(VScale(bh1.mass, bh1.position),
                             VScale(bh2.mass, bh2.position)), M),
     velocity |-> VAddScaled(VDivS(VAdd(VScale(bh1.mass, bh1.velocity),
                                        VScale(bh2.mass, bh2.velocity)), M),
                             kick_velocity,
                             Normalize(Cross(VSub(bh1.position, bh2.position),
                                             VSub(bh1.velocity, bh2.velocity))))]

RemnantFits(bh1, bh2, M, eta) ==
    RemnantOf(bh1, bh2, M, eta, FMul(M, final_mass_fraction(eta, bh1.chi, bh2.chi)),
              recoil_kick(eta, bh1.chi, bh2.chi))

RemnantAt(bh1, bh2, M) ==
    RemnantFits(bh1, bh2, M, FDiv(FMul(bh1.mass, bh2.mass), FMul(M, M)))

compute_remnant(bh1, bh2) == RemnantAt(bh1, bh2, bh1.mass + bh2.mass)

RemnantZero ==
    [mass |-> 0, spin |-> 0, energy_radiated |-> 0, kick_velocity |-> 0,
     position |-> Zero3, velocity |-> Zero3]

QNMZero == [frequency |-> 0, damping_time |-> 0, amplitude |-> 0, phase |-> 0]


---------------------------------------------------------------------------
(* simulation.cpp: init_binary, make_frame, run_simulation                 *)

\* the inspiral step ceiling of run_simulation (2000000000 in the source),
\* scaled down so that a run can reach it
StepCeiling == 12

\* step cadence of the inspiral progress callback (10000 in the source), scaled
\* down with the step ceiling so that a run notifies more than once
ProgressSteps == 5
\* sample cadence of the ringdown progress callback (50 in the source), scaled
\* down with the ringdown sample counts
RingdownProgress == 2

\* 1e-30, the ringdown strain threshold, at the resolution of the model
AmplitudeEps == 0

UnitY == <<0, Scale, 0>>

init_binary(config) ==
    LET M == config.m1 + config.m2
        r0 == config.initial_separation
        r1 == FDiv(FMul(r0, config.m2), M)
        r2 == FDiv(FMul(r0, config.m1), M)
        v_circ_rel == FSqrt(FDiv(M, r0))
        ecc == config.eccentricity
        v_factor == FSqrt(FDiv(Scale + ecc, Scale - ecc))
        v_rel == FMul(v_circ_rel, v_factor)
        v1 == FDiv(FMul(v_rel, config.m2), M)
        v2 == FDiv(FMul(v_rel, config.m1), M)
    IN  << BlackHole(config.m1, config.chi1, <<r1, 0, 0>>, <<0, 0, v1>>,
                     Normalize(config.spin_axis1)),
           BlackHole(config.m2, config.chi2, <<-r2, 0, 0>>, <<0, 0, -v2>>,
                     Normalize(config.spin_axis2)) >>

make_frame(time, bh1, bh2, obs_distance, obs_inclination, phase) ==
    [time |-> time, bh1 |-> bh1, bh2 |-> bh2,
     orbital |-> compute_orbital_params(bh1, bh2),
     gw |-> compute_gw_strain(bh1, bh2, obs_distance, obs_inclination),
     phase |-> phase]

VARIABLES
    config,            \* the SimulationConfig of the run
    pc,                \* where the run is: "inspiral", "remnant", "ringdown", "done", "built"
    state,             \* BinaryState state
    bh1, bh2,          \* BlackHole bh1, bh2
    result,            \* SimulationResult result
    last_record_time,
    last_phase,
    step_count,
    ring_i,            \* the ringdown loop index i
    calls,             \* the invocations of config.progress_callback, in order
    remnant_calls,     \* how often compute_remnant and compute_qnm_222 have run
    timeline,          \* the CollisionTimeline built from result
    query,             \* the last CollisionTimeline::interpolate call
    probe,             \* input of a function applied on its own, or the second invocation
    out                \* its value

vars == <<config, pc, state, bh1, bh2, result, last_record_time, last_phase,
          step_count, ring_i, calls, remnant_calls, timeline, query, probe, out>>

runVars == <<config, pc, state, bh1, bh2, result, last_record_time, last_phase,
             step_count, ring_i, calls, remnant_calls>>

\* SimulationResult result = {}
ResultZero(cfg) ==
    [frames |-> <<>>, config |-> cfg.binary, remnant |-> RemnantZero, qnm |-> QNMZero,
     merger_time |-> 0, total_gw_cycles |-> 0, total_energy_radiated |-> 0,
     merger_occurred |-> FALSE, num_inspiral_frames |-> 0, num_ringdown_frames |-> 0]

\* time_to_merger_estimate of the orbit initial_orbit
MergerEstimate(initial_orbit) ==
    time_to_merger_estimate(initial_orbit.symmetric_mass_ratio,
                            initial_orbit.total_mass, initial_orbit.separation)

InitialOrbit(b) == compute_orbital_params(b[1], b[2])

estimated_merger_time(cfg) == MergerEstimate(InitialOrbit(init_binary(cfg.binary)))

deriv(cfg) == make_deriv_func(cfg.binary.m1, cfg.binary.m2,
                              cfg.enable_1pn, cfg.enable_2pn, cfg.enable_25pn)

\* std::min(1.0, time / estimated_merger_time)
InspiralFraction(time, est) ==
    LET q == FDivZ(time, est)
    IN  IF q = NaN THEN Scale ELSE Min(Scale, q)

\* the state of run_simulation(cfg) on entry to the inspiral loop
RunStart(cfg) ==
    LET b == init_binary(cfg.binary)
    IN  /\ config = cfg
        /\ pc = "inspiral"
        /\ bh1 = b[1]
        /\ bh2 = b[2]
        /\ state = BinaryState(b[1].position, b[1].velocity,
                               b[2].position, b[2].velocity, 0)
        /\ result = ResultZero(cfg)
        /\ last_record_time = -cfg.record_interval
        /\ last_phase = 0
        /\ step_count = 0
        /\ ring_i = 0
        /\ calls = <<>>
        /\ remnant_calls = 0

\* while (state.time < config.max_time) is false
InspiralExit ==
    /\ pc = "inspiral"
    /\ ~(state.time < config.max_time)
    /\ pc' = "remnant"
    /\ UNCHANGED <<config, state, bh1, bh2, result, last_record_time, last_phase,
                   step_count, ring_i, calls, remnant_calls>>
    /\ UNCHANGED <<timeline, query, probe, out>>

\* bh1, bh2 after "Update BH states from integrator state"
Synced(bh, pos, vel) == [bh EXCEPT !.position = pos, !.velocity = vel]

\* InspiralMerge without its break: the loop goes on after the merger frame
InspiralMergeNoBreak ==
    LET b1 == Synced(bh1, state.pos1, state.vel1)
        b2 == Synced(bh2, state.pos2, state.vel2)
    IN  /\ pc = "inspiral"
        /\ state.time < config.max_time
        /\ should_merge(b1, b2, DefaultCriticalFactor)
        /\ bh1' = b1
        /\ bh2' = b2
        /\ result' = [result EXCEPT
                         !.merger_occurred = TRUE,
                         !.merger_time = state.time,
                         !.frames = Append(@, make_frame(state.time, b1, b2,
                                                config.observer_distance,
                                                config.observer_inclination, 1))]
        /\ UNCHANGED <<config, pc, state, last_record_time, last_phase, step_count,
                       ring_i, calls, remnant_calls>>
        /\ UNCHANGED <<timeline, query, probe, out>>

\* an iteration on which should_merge holds: the merger frame, then break
InspiralMerge ==
    LET b1 == Synced(bh1, state.pos1, state.vel1)
        b2 == Synced(bh2, state.pos2, state.vel2)
    IN  /\ pc = "inspiral"
        /\ state.time < config.max_time
        /\ should_merge(b1, b2, DefaultCriticalFactor)
        /\ bh1' = b1
        /\ bh2' = b2
        /\ result' = [result EXCEPT
                         !.merger_occurred = TRUE,
                         !.merger_time = state.time,
                         !.frames = Append(@, make_frame(state.time, b1, b2,
                                                config.observer_distance,
                                                config.observer_inclination, 1))]
        /\ pc' = "remnant"
        /\ UNCHANGED <<config, state, last_record_time, last_phase, step_count,
                       ring_i, calls, remnant_calls>>
        /\ UNCHANGED <<timeline, query, probe, out>>

\* EffectiveInterval without the dense sampling of the plunge
EffectiveIntervalFlat(cfg, st, b1, b2) == cfg.record_interval

\* the recording interval in force at the current separation
EffectiveInterval(cfg, st, b1, b2) ==
    LET current_sep == Length(VSub(st.pos1, st.pos2))
        M_tot == b1.mass + b2.mass
    IN  IF current_sep < 10 * M_tot THEN RDiv(cfg.record_interval, 4000)
        ELSE cfg.record_interval

\* WrapPhase leaving the difference as it is
WrapPhaseNone(phase_diff) == phase_diff

\* the phase difference wrapped as the cycle counter wraps it
WrapPhase(phase_diff) ==
    LET a == IF phase_diff < -Pi THEN phase_diff + 2 * Pi ELSE phase_diff
    IN  IF a > Pi THEN a - 2 * Pi ELSE a

\* CeilingReached with the test left out
CeilingNever(n) == n < 0

\* CeilingReached on a step counter that is one static variable, shared with
\* the other invocation
CeilingReachedShared(n) == n + probe.locals.step_count > StepCeiling

\* if (step_count > 2000000000) break, on the incremented step_count
CeilingReached(n) == n > StepCeiling

\* InspiralStep without the merger check ahead of it: a state is recorded and
\* stepped whether or not it merges
InspiralStepUnchecked ==
    LET b1 == Synced(bh1, state.pos1, state.vel1)
        b2 == Synced(bh2, state.pos2, state.vel2)
        total_mass == b1.mass + b2.mass
        record == state.time - last_record_time >= EffectiveInterval(config, state, b1, b2)
        orb == compute_orbital_params(b1, b2)
        phase_diff == WrapPhase(orb.orbital_phase - last_phase)
        notify == config.progress_callback /\ step_count % ProgressSteps = 0
        dt == adaptive_timestep(state, config.integrator, total_mass)
    IN  /\ pc = "inspiral"
        /\ state.time < config.max_time
        /\ bh1' = b1
        /\ bh2' = b2
        /\ result' = IF record
                      THEN [result EXCEPT
                              !.frames = Append(@, make_frame(state.time, b1, b2,
                                                     config.observer_distance,
                                                     config.observer_inclination, 0)),
                              !.total_gw_cycles = @ + FDiv(Abs(phase_diff), Pi)]
                      ELSE result
        /\ last_record_time' = IF record THEN state.time ELSE last_record_time
        /\ last_phase' = IF record THEN orb.orbital_phase ELSE last_phase
        /\ calls' = IF notify
                     THEN Append(calls,
                                 [time |-> state.time,
                                  frac |-> InspiralFraction(state.time,
                                                            estimated_merger_time(config)),
                                  name |-> "inspiral"])
                     ELSE calls
        /\ state' = rk4_step(state, dt, deriv(config))
        /\ step_count' = step_count + 1
        /\ pc' = IF CeilingReached(step_count + 1) THEN "remnant" ELSE "inspiral"
        /\ UNCHANGED <<config, ring_i, remnant_calls>>
        /\ UNCHANGED <<timeline, query, probe, out>>

\* an iteration on which should_merge fails: record, notify, step
InspiralStep ==
    LET b1 == Synced(bh1, state.pos1, state.vel1)
        b2 == Synced(bh2, state.pos2, state.vel2)
        total_mass == b1.mass + b2.mass
        record == state.time - last_record_time >= EffectiveInterval(config, state, b1, b2)
        orb == compute_orbital_params(b1, b2)
        phase_diff == WrapPhase(orb.orbital_phase - last_phase)
        notify == config.progress_callback /\ step_count % ProgressSteps = 0
        dt == adaptive_timestep(state, config.integrator, total_mass)
    IN  /\ pc = "inspiral"
        /\ state.time < config.max_time
        /\ ~should_merge(b1, b2, DefaultCriticalFactor)
        /\ bh1' = b1
        /\ bh2' = b2
        /\ result' = IF record
                      THEN [result EXCEPT
                              !.frames = Append(@, make_frame(state.time, b1, b2,
                                                     config.observer_distance,
                                                     config.observer_inclination, 0)),
                              !.total_gw_cycles = @ + FDiv(Abs(phase_diff), Pi)]
                      ELSE result
        /\ last_record_time' = IF record THEN state.time ELSE last_record_time
        /\ last_phase' = IF record THEN orb.orbital_phase ELSE last_phase
        /\ calls' = IF notify
                     THEN Append(calls,
                                 [time |-> state.time,
                                  frac |-> InspiralFraction(state.time,
                                                            estimated_merger_time(config)),
                                  name |-> "inspiral"])
                     ELSE calls
        /\ state' = rk4_step(state, dt, deriv(config))
        /\ step_count' = step_count + 1
        /\ pc' = IF CeilingReached(step_count + 1) THEN "remnant" ELSE "inspiral"
        /\ UNCHANGED <<config, ring_i, remnant_calls>>
        /\ UNCHANGED <<timeline, query, probe, out>>

\* ReturnNoMerger with num_ringdown_frames set outside the merger branch
ReturnNoMergerCounted ==
    /\ pc = "remnant"
    /\ ~result.merger_occurred
    /\ result' = [result EXCEPT !.num_inspiral_frames = Len(result.frames),
                                !.num_ringdown_frames = config.ringdown_samples]
    /\ pc' = "done"
    /\ UNCHANGED <<config, state, bh1, bh2, last_record_time, last_phase, step_count,
                   ring_i, calls, remnant_calls>>
    /\ UNCHANGED <<timeline, query, probe, out>>

\* after the loop, no merger: return result
ReturnNoMerger ==
    /\ pc = "remnant"
    /\ ~result.merger_occurred
    /\ result' = [result EXCEPT !.num_inspiral_frames = Len(result.frames)]
    /\ pc' = "done"
    /\ UNCHANGED <<config, state, bh1, bh2, last_record_time, last_phase, step_count,
                   ring_i, calls, remnant_calls>>
    /\ UNCHANGED <<timeline, query, probe, out>>

\* MergerRemnant computing the remnant from the initial bodies
MergerRemnantStale ==
    LET remnant == compute_remnant(init_binary(config.binary)[1],
                                   init_binary(config.binary)[2])
        merger_gw == compute_gw_strain(bh1, bh2, config.observer_distance,
                                       config.observer_inclination)
        merger_amplitude == FMul(merger_gw.amplitude, config.observer_distance)
    IN  /\ pc = "remnant"
        /\ result.merger_occurred
        /\ result' = [result EXCEPT
                         !.num_inspiral_frames = Len(result.frames),
                         !.remnant = remnant,
                         !.total_energy_radiated = remnant.energy_radiated,
                         !.qnm = compute_qnm_222(remnant.mass, remnant.spin,
                                                 merger_amplitude)]
        /\ remnant_calls' = remnant_calls + 1
        /\ ring_i' = 0
        /\ pc' = "ringdown"
        /\ UNCHANGED <<config, state, bh1, bh2, last_record_time, last_phase,
                       step_count, calls>>
        /\ UNCHANGED <<timeline, query, probe, out>>

\* after the loop, merger: remnant and quasinormal mode, then the ringdown loop
MergerRemnant ==
    LET remnant == compute_remnant(bh1, bh2)
        merger_gw == compute_gw_strain(bh1, bh2, config.observer_distance,
                                       config.observer_inclination)
        merger_amplitude == FMul(merger_gw.amplitude, config.observer_distance)
    IN  /\ pc = "remnant"
        /\ result.merger_occurred
        /\ result' = [result EXCEPT
                         !.num_inspiral_frames = Len(result.frames),
                         !.remnant = remnant,
                         !.total_energy_radiated = remnant.energy_radiated,
                         !.qnm = compute_qnm_222(remnant.mass, remnant.spin,
                                                 merger_amplitude)]
        /\ remnant_calls' = remnant_calls + 1
        /\ ring_i' = 0
        /\ pc' = "ringdown"
        /\ UNCHANGED <<config, state, bh1, bh2, last_record_time, last_phase,
                       step_count, calls>>
        /\ UNCHANGED <<timeline, query, probe, out>>

\* config.ringdown_duration / config.ringdown_samples; samples # 0
ringdown_dt(cfg) == RDiv(cfg.ringdown_duration, cfg.ringdown_samples)

\* RingdownFrameOf with the frame time counted from 0, not from merger_time
RingdownFrameFromZero(res, t_ring, gw_ring) ==
    [time |-> t_ring,
     bh1 |-> BlackHole(res.remnant.mass, res.remnant.spin,
                       VAddScaled(res.remnant.position, t_ring, res.remnant.velocity),
                       res.remnant.velocity, UnitY),
     bh2 |-> BlackHole(0, 0, Zero3, Zero3, Zero3),
     orbital |-> [OrbitalZero EXCEPT !.orbital_frequency = res.qnm.frequency],
     gw |-> gw_ring,
     phase |-> IF gw_ring.amplitude # NaN /\ gw_ring.amplitude > AmplitudeEps
               THEN 2 ELSE 3]

\* RingdownFrameOf tagging every frame 2
RingdownFrameOfRinging(res, t_ring, gw_ring) ==
    [time |-> res.merger_time + t_ring,
     bh1 |-> BlackHole(res.remnant.mass, res.remnant.spin,
                       VAddScaled(res.remnant.position, t_ring, res.remnant.velocity),
                       res.remnant.velocity, UnitY),
     bh2 |-> BlackHole(0, 0, Zero3, Zero3, Zero3),
     orbital |-> [OrbitalZero EXCEPT !.orbital_frequency = res.qnm.frequency],
     gw |-> gw_ring,
     phase |-> 2]

\* the ringdown frame at t_ring after the merger, of strain gw_ring
RingdownFrameOf(res, t_ring, gw_ring) ==
    [time |-> res.merger_time + t_ring,
     bh1 |-> BlackHole(res.remnant.mass, res.remnant.spin,
                       VAddScaled(res.remnant.position, t_ring, res.remnant.velocity),
                       res.remnant.velocity, UnitY),
     bh2 |-> BlackHole(0, 0, Zero3, Zero3, Zero3),
     orbital |-> [OrbitalZero EXCEPT !.orbital_frequency = res.qnm.frequency],
     gw |-> gw_ring,
     phase |-> IF gw_ring.amplitude # NaN /\ gw_ring.amplitude > AmplitudeEps
               THEN 2 ELSE 3]

RingdownFrameAt(res, cfg, t_ring) ==
    RingdownFrameOf(res, t_ring,
                    ringdown_strain(res.qnm, t_ring, cfg.observer_distance,
                                    cfg.observer_inclination))

\* RingdownFrame with the samples counted from 1: the first ringdown frame lies
\* one sample after the merger
RingdownFrameFromOne(res, cfg, i) == RingdownFrameAt(res, cfg, (i + 1) * ringdown_dt(cfg))

\* the frame the ringdown loop builds at index i
RingdownFrame(res, cfg, i) == RingdownFrameAt(res, cfg, i * ringdown_dt(cfg))

\* RingdownSample notifying on every sample
RingdownSampleNotifyAll ==
    LET frame == RingdownFrame(result, config, ring_i)
        notify == config.progress_callback
    IN  /\ pc = "ringdown"
        /\ ring_i < config.ringdown_samples
        /\ result' = [result EXCEPT !.frames = Append(@, frame)]
        /\ calls' = IF notify
                     THEN Append(calls,
                                 [time |-> frame.time,
                                  frac |-> RDiv(ring_i * Scale, config.ringdown_samples),
                                  name |-> "ringdown"])
                     ELSE calls
        /\ ring_i' = ring_i + 1
        /\ UNCHANGED <<config, pc, state, bh1, bh2, last_record_time, last_phase,
                       step_count, remnant_calls>>
        /\ UNCHANGED <<timeline, query, probe, out>>

\* one iteration of the ringdown loop
RingdownSample ==
    LET frame == RingdownFrame(result, config, ring_i)
        notify == config.progress_callback /\ ring_i % RingdownProgress = 0
    IN  /\ pc = "ringdown"
        /\ ring_i < config.ringdown_samples
        /\ result' = [result EXCEPT !.frames = Append(@, frame)]
        /\ calls' = IF notify
                     THEN Append(calls,
                                 [time |-> frame.time,
                                  frac |-> RDiv(ring_i * Scale, config.ringdown_samples),
                                  name |-> "ringdown"])
                     ELSE calls
        /\ ring_i' = ring_i + 1
        /\ UNCHANGED <<config, pc, state, bh1, bh2, last_record_time, last_phase,
                       step_count, remnant_calls>>
        /\ UNCHANGED <<timeline, query, probe, out>>

\* RingdownDone leaving num_ringdown_frames at its initial 0
RingdownDoneUncounted ==
    /\ pc = "ringdown"
    /\ ~(ring_i < config.ringdown_samples)
    /\ pc' = "done"
    /\ UNCHANGED <<config, state, bh1, bh2, result, last_record_time, last_phase,
                   step_count, ring_i, calls, remnant_calls>>
    /\ UNCHANGED <<timeline, query, probe, out>>

\* the ringdown loop ends: num_ringdown_frames, return result
RingdownDone ==
    /\ pc = "ringdown"
    /\ ~(ring_i < config.ringdown_samples)
    /\ result' = [result EXCEPT !.num_ringdown_frames = config.ringdown_samples]
    /\ pc' = "done"
    /\ UNCHANGED <<config, state, bh1, bh2, last_record_time, last_phase, step_count,
                   ring_i, calls, remnant_calls>>
    /\ UNCHANGED <<timeline, query, probe, out>>


---------------------------------------------------------------------------
(* integration_api.cpp: CollisionTimeline::build, ::interpolate            *)

\* significant bits a float keeps (24 in the source, scaled to the model's doubles)
FloatBits == 8

\* chi < 1e-10 at the resolution of the model
ChiEps == 1

\* (size_t)0 - 1
SizeMax == 2147483647

RECURSIVE FloatUlp(_, _)
\* the spacing of floats around the magnitude a
FloatUlp(a, u) == IF a < Pow2(FloatBits) * u THEN u ELSE FloatUlp(a, 2 * u)

\* x rounded to a multiple of u
RoundTo(x, u) == RDiv(x, u) * u

\* (float)x: x rounded to FloatBits significant bits
ToFloat(x) ==
    IF x = NaN \/ x = Inf \/ x = -Inf THEN x
    ELSE RoundTo(x, FloatUlp(Abs(x), 1))

ToFloat3(v) == <<ToFloat(v[1]), ToFloat(v[2]), ToFloat(v[3])>>

IscoOf(mass, Z1, Z2) ==
    FMul(mass, 3 * Scale + Z2 - FSqrt(FMul(3 * Scale - Z1, 3 * Scale + Z1 + 2 * Z2)))

IscoKerr(mass, a, Z1) == IscoOf(mass, Z1, FSqrt(3 * FMul(a, a) + FMul(Z1, Z1)))

isco_radius(bh) ==
    IF bh.chi < ChiEps THEN 6 * bh.mass
    ELSE IscoKerr(bh.mass, bh.chi,
                  Scale + FMul(FCbrt(Scale - FMul(bh.chi, bh.chi)),
                               FCbrt(Scale + bh.chi) + FCbrt(Scale - bh.chi)))

BHRenderZero ==
    [position |-> Zero3, mass |-> 0, schwarzschild_radius |-> 0, spin |-> 0,
     spin_axis |-> Zero3, isco_radius |-> 0]

\* CollisionRenderData rd = {}
RenderZero ==
    [time |-> 0, num_black_holes |-> 0,
     black_holes |-> <<BHRenderZero, BHRenderZero, BHRenderZero, BHRenderZero>>,
     gw_strain_plus |-> 0, gw_strain_cross |-> 0, gw_amplitude |-> 0,
     gw_frequency |-> 0, orbital_phase |-> 0, phase |-> 0]

\* the render state of a black hole of a two-body frame
BHRender(bh) ==
    [position |-> ToFloat3(bh.position), mass |-> ToFloat(bh.mass),
     schwarzschild_radius |-> ToFloat(schwarzschild_radius(bh)),
     spin |-> ToFloat(bh.chi), spin_axis |-> ToFloat3(bh.spin_axis),
     isco_radius |-> ToFloat(isco_radius(bh))]

\* the render state of the remnant of a one-body frame
RemnantRender(bh) ==
    [position |-> ToFloat3(bh.position), mass |-> ToFloat(bh.mass),
     schwarzschild_radius |-> ToFloat(2 * bh.mass),
     spin |-> ToFloat(bh.chi), spin_axis |-> UnitY,
     isco_radius |-> ToFloat(isco_radius(bh))]

\* the body of build's loop: the render data of one simulation frame
RenderFrame(f) ==
    [time |-> ToFloat(f.time),
     phase |-> f.phase,
     num_black_holes |-> IF f.phase <= 1 THEN 2 ELSE 1,
     black_holes |-> IF f.phase <= 1
                     THEN <<BHRender(f.bh1), BHRender(f.bh2), BHRenderZero, BHRenderZero>>
                     ELSE <<RemnantRender(f.bh1), BHRenderZero, BHRenderZero, BHRenderZero>>,
     gw_strain_plus |-> ToFloat(f.gw.h_plus),
     gw_strain_cross |-> ToFloat(f.gw.h_cross),
     gw_amplitude |-> ToFloat(f.gw.amplitude),
     gw_frequency |-> ToFloat(f.gw.frequency),
     orbital_phase |-> ToFloat(f.orbital.orbital_phase)]

\* MergerFrameIndex counting frames from 1
MergerFrameIndexFromOne(frames) ==
    LET tagged == {i \in 1..Len(frames) : frames[i].phase = 1}
    IN  IF tagged = {} THEN -1
        ELSE CHOOSE i \in tagged : \A j \in tagged : i <= j

\* the 0-based index of the first frame tagged 1, or -1
MergerFrameIndex(frames) ==
    LET tagged == {i \in 1..Len(frames) : frames[i].phase = 1}
    IN  IF tagged = {} THEN -1
        ELSE (CHOOSE i \in tagged : \A j \in tagged : i <= j) - 1

TimelineZero ==
    [frames |-> <<>>, total_duration |-> 0, merger_time |-> 0, merger_frame_index |-> -1]

build(res) ==
    IF res.frames = <<>> THEN TimelineZero
    ELSE [frames |-> [i \in 1..Len(res.frames) |-> RenderFrame(res.frames[i])],
          total_duration |-> ToFloat(res.frames[Len(res.frames)].time),
          merger_time |-> ToFloat(res.merger_time),
          merger_frame_index |-> MergerFrameIndex(res.frames)]

\* ClampTime with min and max exchanged
ClampTimeSwapped(t, total_duration) == Min(0, Max(t, total_duration))

\* t = std::max(0.0f, std::min(t, total_duration))
ClampTime(t, total_duration) == Max(0, Min(t, total_duration))

RECURSIVE SearchFrames(_, _, _, _)
\* the binary search loop on 0-based lo, hi of type size_t;
\* returns FALSE when an iteration changes neither lo nor hi (the loop never ends)
SearchFrames(frames, t, lo, hi) ==
    LET hi1 == IF hi = 0 THEN SizeMax ELSE hi - 1
        mid == (lo + hi) \div 2
        below == frames[mid + 1].time <= t
        lo2 == IF below THEN mid ELSE lo
        hi2 == IF below THEN hi ELSE mid
    IN  IF ~(lo < hi1) THEN [returns |-> TRUE, lo |-> lo, hi |-> hi]
        ELSE IF lo2 = lo /\ hi2 = hi THEN [returns |-> FALSE, lo |-> lo, hi |-> hi]
        ELSE SearchFrames(frames, t, lo2, hi2)

\* IEEE x * w for a weight 0 <= w <= 1 and x not finite
WeighInf(x, w) == IF x = NaN \/ w = 0 THEN NaN ELSE x

\* IEEE ta + tb where 0 stands for a finite term and one of the two is not
AddInf(ta, tb) ==
    IF ta = NaN \/ tb = NaN THEN NaN
    ELSE IF ta = 0 THEN tb
    ELSE IF tb = 0 \/ ta = tb THEN ta
    ELSE NaN

\* a * (1 - alpha) + b * alpha in float arithmetic
Lerp(a, b, alpha) ==
    IF IsFinite(a) /\ IsFinite(b)
    THEN ToFloat(ToFloat(FMul(a, ToFloat(Scale - alpha))) + ToFloat(FMul(b, alpha)))
    ELSE AddInf(IF IsFinite(a) THEN 0 ELSE WeighInf(a, ToFloat(Scale - alpha)),
                IF IsFinite(b) THEN 0 ELSE WeighInf(b, alpha))

Lerp3(u, v, alpha) == <<Lerp(u[1], v[1], alpha), Lerp(u[2], v[2], alpha),
                        Lerp(u[3], v[3], alpha)>>

\* glm::normalize of a blended axis m
BlendAxis(m) == IF Finite3(m) THEN ToFloat3(Normalize(m)) ELSE NaN3

BlendBH(a, b, alpha) ==
    [position |-> Lerp3(a.position, b.position, alpha),
     mass |-> Lerp(a.mass, b.mass, alpha),
     schwarzschild_radius |-> Lerp(a.schwarzschild_radius, b.schwarzschild_radius, alpha),
     spin |-> Lerp(a.spin, b.spin, alpha),
     spin_axis |-> BlendAxis(Lerp3(a.spin_axis, b.spin_axis, alpha)),
     isco_radius |-> Lerp(a.isco_radius, b.isco_radius, alpha)]

\* BlendOf taking the phase tag from the farther endpoint
BlendOfFarther(a, b, t, alpha, n) ==
    [time |-> t,
     phase |-> IF alpha < Dec(5, 10) THEN b.phase ELSE a.phase,
     num_black_holes |-> n,
     black_holes |-> [i \in 1..4 |->
                        IF i <= n THEN BlendBH(a.black_holes[i], b.black_holes[i], alpha)
                        ELSE BHRenderZero],
     gw_strain_plus |-> Lerp(a.gw_strain_plus, b.gw_strain_plus, alpha),
     gw_strain_cross |-> Lerp(a.gw_strain_cross, b.gw_strain_cross, alpha),
     gw_amplitude |-> Lerp(a.gw_amplitude, b.gw_amplitude, alpha),
     gw_frequency |-> Lerp(a.gw_frequency, b.gw_frequency, alpha),
     orbital_phase |-> Lerp(a.orbital_phase, b.orbital_phase, alpha)]

\* the blend of a and b by the factor alpha, n black holes kept
BlendOf(a, b, t, alpha, n) ==
    [time |-> t,
     phase |-> IF alpha < Dec(5, 10) THEN a.phase ELSE b.phase,
     num_black_holes |-> n,
     black_holes |-> [i \in 1..4 |->
                        IF i <= n THEN BlendBH(a.black_holes[i], b.black_holes[i], alpha)
                        ELSE BHRenderZero],
     gw_strain_plus |-> Lerp(a.gw_strain_plus, b.gw_strain_plus, alpha),
     gw_strain_cross |-> Lerp(a.gw_strain_cross, b.gw_strain_cross, alpha),
     gw_amplitude |-> Lerp(a.gw_amplitude, b.gw_amplitude, alpha),
     gw_frequency |-> Lerp(a.gw_frequency, b.gw_frequency, alpha),
     orbital_phase |-> Lerp(a.orbital_phase, b.orbital_phase, alpha)]

BlendAt(a, b, t, alpha) ==
    BlendOf(a, b, t, alpha,
            IF alpha < Dec(5, 10) THEN a.num_black_holes ELSE b.num_black_holes)

\* the linear interpolation between the bracketing frames a and b
Blend(a, b, t) ==
    BlendAt(a, b, t,
            Max(0, Min(Scale, ToFloat(FDiv(ToFloat(t - a.time),
                                           ToFloat(b.time - a.time))))))

\* the returns after the binary search, a and b the frames at lo and hi
Bracket(s, a, b, t) ==
    IF ~s.returns THEN [returns |-> FALSE, data |-> RenderZero]
    ELSE IF s.lo = s.hi \/ t <= a.time THEN [returns |-> TRUE, data |-> a]
    ELSE IF t >= b.time THEN [returns |-> TRUE, data |-> b]
    ELSE [returns |-> TRUE, data |-> Blend(a, b, t)]

Searched(tl, t, s) == Bracket(s, tl.frames[s.lo + 1], tl.frames[s.hi + 1], t)

\* interpolate on a timeline with frames, t clamped
InterpolateAt(tl, t) == Searched(tl, t, SearchFrames(tl.frames, t, 0, Len(tl.frames) - 1))

\* CollisionTimeline::interpolate(t): [returns, data]
interpolate(tl, t0) ==
    IF tl.frames = <<>> THEN [returns |-> TRUE, data |-> RenderZero]
    ELSE InterpolateAt(tl, ClampTime(t0, tl.total_duration))

---------------------------------------------------------------------------
(* The configurations explored, and the specification of a run             *)

\* BinaryConfig: two bodies, spin axes along +Y
Binary(m1, m2, chi1, chi2, r0, ecc) ==
    [m1 |-> m1, m2 |-> m2, chi1 |-> chi1, chi2 |-> chi2,
     spin_axis1 |-> UnitY, spin_axis2 |-> UnitY,
     initial_separation |-> r0, eccentricity |-> ecc]

\* the part of a SimulationConfig that fixes the orbit: bodies, integrator,
\* post-Newtonian terms and max_time
Orbit(binary, integrator, pn, max_time) ==
    [binary |-> binary, integrator |-> integrator, pn |-> pn, max_time |-> max_time]

Newtonian == <<FALSE, FALSE, FALSE>>
OnePN == <<TRUE, FALSE, FALSE>>
AllPN == <<TRUE, TRUE, TRUE>>

FixedStep(dt) == IntegratorConfig(dt, Dec(1, 1000), Scale, Dec(1, 10), FALSE)

Orbits ==
    { \* close circular orbits under a coarse fixed step: merge after a few steps
      Orbit(Binary(Dec(1, 2), Dec(1, 2), 0, 0, Dec(55, 100), 0),
            FixedStep(Dec(1, 2)), Newtonian, 100 * Scale),
      Orbit(Binary(Dec(1, 2), Dec(1, 2), Dec(1, 2), Dec(3, 10), Dec(6, 10), 0),
            FixedStep(Dec(1, 2)), Newtonian, 100 * Scale),
      \* a wider circular orbit under the same step: merges after nine steps
      Orbit(Binary(Dec(1, 2), Dec(1, 2), 0, 0, Dec(7, 10), 0),
            FixedStep(Dec(1, 2)), Newtonian, 100 * Scale),
      \* adaptive stepping, first post-Newtonian order: merges by relative speed
      Orbit(Binary(Dec(1, 2), Dec(1, 2), 0, 0, Dec(55, 100), 0),
            IntegratorConfig(Dec(1, 10), Dec(1, 10), Scale, Scale, TRUE),
            OnePN, 100 * Scale),
      \* already inside the critical separation
      Orbit(Binary(Dec(1, 2), Dec(1, 2), Dec(1, 2), Dec(3, 10), Dec(4, 10), 0),
            FixedStep(Dec(1, 2)), AllPN, 100 * Scale),
      \* already above the relative speed limit
      Orbit(Binary(Dec(1, 4), Dec(3, 4), 0, 0, Dec(8, 10), Dec(6, 10)),
            FixedStep(Dec(1, 5)), AllPN, 100 * Scale),
      \* wide Newtonian orbit: ends at max_time
      Orbit(Binary(Dec(1, 2), Dec(1, 2), 0, 0, 3 * Scale, 0),
            FixedStep(Dec(1, 5)), Newtonian, Scale),
      \* wide Newtonian orbit: ends at the step ceiling
      Orbit(Binary(Dec(1, 2), Dec(1, 2), 0, 0, 3 * Scale, 0),
            FixedStep(Dec(1, 5)), Newtonian, 100 * Scale),
      \* a step of zero: time never advances
      Orbit(Binary(Dec(1, 2), Dec(1, 2), 0, 0, 3 * Scale, 0),
            FixedStep(0), Newtonian, 100 * Scale),
      \* adaptive stepping with all terms, ends at max_time
      Orbit(Binary(Dec(1, 2), Dec(1, 2), 0, 0, 6 * Scale, 0),
            IntegratorConfig(Dec(1, 10), Dec(1, 1000), Scale, Dec(1, 10), TRUE),
            AllPN, 5 * Scale),
      \* max_time = 0: the loop is never entered
      Orbit(Binary(Dec(1, 2), Dec(1, 2), 0, 0, 3 * Scale, 0),
            FixedStep(Dec(1, 5)), Newtonian, 0),
      \* separation above 10 total masses: frames are recorded at the nominal
      \* interval; ends at max_time
      Orbit(Binary(Dec(1, 2), Dec(1, 2), 0, 0, 12 * Scale, 0),
            FixedStep(Scale), Newtonian, 9 * Scale) }

\* <<ringdown_duration, ringdown_samples>>
Ringdowns ==
    { <<Scale, 3>>, <<Dec(6, 10), 2>>, <<0, 2>>, <<Dec(1, 2), 1>>,
      <<Dec(1, 2), 0>>, <<Dec(1, 2), -1>> }

\* record_interval: every step, one that its 4000th part resolves, and a
\* negative one (the field is not validated)
RecordIntervals == {0, 4 * Scale, -4 * Scale}

\* a SimulationConfig: the orbit o, the ringdown rd, record_interval ri, the
\* observer at distance 1 and inclination iota, with or without a callback
SimulationConfig(o, rd, ri, iota, cb) ==
    [binary |-> o.binary, integrator |-> o.integrator, max_time |-> o.max_time,
     record_interval |-> ri,
     ringdown_duration |-> rd[1], ringdown_samples |-> rd[2],
     observer_distance |-> Scale, observer_inclination |-> iota,
     enable_1pn |-> o.pn[1], enable_2pn |-> o.pn[2], enable_25pn |-> o.pn[3],
     progress_callback |-> cb]

\* ringdowns that outlast the strain, or sample it every quarter of a cycle
LongRingdowns == { <<60 * Scale, 3>>, <<Dec(862, 100), 3>> }

\* the observer face-on and edge-on
Inclinations == {0, RDiv(Pi, 2)}

Configs ==
    { SimulationConfig(o, rd, ri, 0, cb) :
        o \in Orbits, rd \in Ringdowns, ri \in RecordIntervals, cb \in BOOLEAN }
    \cup
    { SimulationConfig(o, rd, 0, iota, FALSE) :
        o \in {q \in Orbits : q.binary.initial_separation = Dec(55, 100)
                                /\ ~q.integrator.adaptive},
        rd \in LongRingdowns, iota \in Inclinations }
    \cup
    \* max_time = 0 on a binary that is already inside the critical separation
    { SimulationConfig([o EXCEPT !.max_time = 0], <<Dec(1, 2), 1>>, 0, 0, FALSE) :
        o \in {q \in Orbits : q.binary.initial_separation = Dec(4, 10)} }

\* the arguments CollisionTimeline::interpolate is called with
QueryTimes == {-Scale, 0, Dec(3, 10), Dec(9, 10), Dec(13, 10), Dec(17, 10),
               Dec(5, 2), 10 * Scale}

NoQuery == [asked |-> FALSE, t |-> 0, returns |-> FALSE, data |-> RenderZero]
NoProbe == [of |-> "none"]
NoOut == [of |-> "none"]

Init ==
    /\ \E cfg \in Configs : RunStart(cfg)
    /\ timeline = TimelineZero
    /\ query = NoQuery
    /\ probe = NoProbe
    /\ out = NoOut

\* CollisionTimeline::build(result) on the returned result
BuildTimeline ==
    /\ pc = "done"
    /\ timeline' = build(result)
    /\ pc' = "built"
    /\ UNCHANGED <<config, state, bh1, bh2, result, last_record_time, last_phase,
                   step_count, ring_i, calls, remnant_calls, query, probe, out>>

\* timeline.interpolate(t)
Interpolate(t) ==
    LET r == interpolate(timeline, ToFloat(t))
    IN  /\ pc = "built"
        /\ query' = [asked |-> TRUE, t |-> ToFloat(t), returns |-> r.returns,
                     data |-> r.data]
        /\ UNCHANGED <<runVars, timeline, probe, out>>

Next ==
    \/ InspiralExit
    \/ InspiralMerge
    \/ InspiralStep
    \/ ReturnNoMerger
    \/ MergerRemnant
    \/ RingdownSample
    \/ RingdownDone
    \/ BuildTimeline
    \/ \E t \in QueryTimes : Interpolate(t)

Spec == Init /\ [][Next]_vars

\* the steps of run_simulation itself
Run ==
    \/ InspiralExit
    \/ InspiralMerge
    \/ InspiralStep
    \/ ReturnNoMerger
    \/ MergerRemnant
    \/ RingdownSample
    \/ RingdownDone

Returned == pc \in {"done", "built"}

\* where a run is: its position and its two loop counters
control == <<pc, step_count, ring_i>>

\* max(0, ringdown_samples): the iterations of for (i = 0; i < ringdown_samples; i++)
RingdownIterations(cfg) == Max(0, cfg.ringdown_samples)

\* a step of Run as the control state shows it: every step of Run moves pc or a
\* loop counter, and a run that has not returned has a step to take
Advance ==
    /\ ~Returned
    /\ pc' \in {"inspiral", "remnant", "ringdown", "done"}
    /\ step_count' \in 0..(StepCeiling + 1)
    /\ ring_i' \in 0..RingdownIterations(config)

\* run_simulation is sequential code on one thread: while it has not returned,
\* it takes its next step
FairSpec == Spec /\ WF_control(Advance)

---------------------------------------------------------------------------
(* should_merge and adaptive_timestep applied on their own                 *)

NoConfig == [of |-> "none"]

\* no run in progress
NoRun ==
    /\ config = NoConfig
    /\ pc = "idle"
    /\ state = BinaryState(Zero3, Zero3, Zero3, Zero3, 0)
    /\ bh1 = BlackHole(0, 0, Zero3, Zero3, Zero3)
    /\ bh2 = BlackHole(0, 0, Zero3, Zero3, Zero3)
    /\ result = <<>>
    /\ last_record_time = 0
    /\ last_phase = 0
    /\ step_count = 0
    /\ ring_i = 0
    /\ calls = <<>>
    /\ remnant_calls = 0
    /\ timeline = TimelineZero
    /\ query = NoQuery

\* <<m1, m2>>
MergeMasses == {<<Dec(1, 2), Dec(1, 2)>>, <<Dec(1, 4), Dec(3, 4)>>, <<Scale, Scale>>}
\* |x1 - x2|, the bodies on the x axis
MergeSeparations == {Dec(4, 10), Dec(1, 2), Dec(6, 10), Scale, 3 * Scale, 20 * Scale}
\* |v1 - v2|, the bodies moving along z
MergeSpeeds == {0, 2 * Scale, 2 * Scale + 2, 3 * Scale}
MergeFactors == {DefaultCriticalFactor, Scale, 3 * Scale}
\* <<chi, spin_axis>> of both bodies
MergeSpins == {<<0, UnitY>>, <<Dec(1, 2), <<Scale, 0, 0>>>>}

\* the arguments of a should_merge call
MergeProbe(m, sep, speed, cf, spin) ==
    [of |-> "should_merge",
     bh1 |-> BlackHole(m[1], spin[1], <<sep \div 2, 0, 0>>, <<0, 0, speed \div 2>>,
                       spin[2]),
     bh2 |-> BlackHole(m[2], spin[1], <<sep \div 2 - sep, 0, 0>>,
                       <<0, 0, speed \div 2 - speed>>, spin[2]),
     critical_factor |-> cf]

MergeProbes ==
    { MergeProbe(m, sep, speed, cf, spin) :
        m \in MergeMasses, sep \in MergeSeparations, speed \in MergeSpeeds,
        cf \in MergeFactors, spin \in MergeSpins }

InitMerge == NoRun /\ probe \in MergeProbes /\ out = NoOut

\* should_merge(bh1, bh2, critical_factor) is called
CallShouldMerge ==
    /\ probe.of = "should_merge"
    /\ out = NoOut
    /\ out' = [of |-> "should_merge",
               value |-> should_merge(probe.bh1, probe.bh2, probe.critical_factor)]
    /\ UNCHANGED <<runVars, timeline, query, probe>>

NextMerge == CallShouldMerge

SpecMerge == InitMerge /\ [][NextMerge]_vars

\* |pos1 - pos2| of the integrator state, the bodies on the x axis
StepSeparations == {0, Dec(1, 2), 3 * Scale, 20 * Scale}
StepMasses == {Scale, 2 * Scale}
\* dt_initial: below dt_min, inside [dt_min, dt_max], above dt_max
StepInitials == {0, Dec(1, 2), 5 * Scale}
\* <<dt_min, dt_max>>
StepRanges == {<<Dec(1, 1000), Scale>>, <<Dec(1, 10), Dec(1, 10)>>}
StepSafeties == {Dec(1, 10), Scale}

\* the arguments of an adaptive_timestep call
StepProbe(sep, M, dt0, range, safety, adaptive) ==
    [of |-> "adaptive_timestep",
     state |-> BinaryState(<<sep \div 2, 0, 0>>, Zero3, <<sep \div 2 - sep, 0, 0>>,
                           Zero3, 0),
     config |-> IntegratorConfig(dt0, range[1], range[2], safety, adaptive),
     total_mass |-> M]

StepProbes ==
    { StepProbe(sep, M, dt0, range, safety, adaptive) :
        sep \in StepSeparations, M \in StepMasses, dt0 \in StepInitials,
        range \in StepRanges, safety \in StepSafeties, adaptive \in BOOLEAN }

InitStep == NoRun /\ probe \in StepProbes /\ out = NoOut

\* adaptive_timestep(state, config, total_mass) is called
CallAdaptiveTimestep ==
    /\ probe.of = "adaptive_timestep"
    /\ out = NoOut
    /\ out' = [of |-> "adaptive_timestep",
               value |-> adaptive_timestep(probe.state, probe.config, probe.total_mass)]
    /\ UNCHANGED <<runVars, timeline, query, probe>>

NextStep == CallAdaptiveTimestep

SpecStep == InitStep /\ [][NextStep]_vars

---------------------------------------------------------------------------
(* The derivative closure and rk4_step applied on their own                *)

\* <<m1, m2>>
DerivMasses == {<<Dec(1, 2), Dec(1, 2)>>, <<Dec(1, 4), Dec(3, 4)>>, <<Dec(6, 10), Dec(2, 10)>>}
\* |pos1 - pos2|, the bodies on the x axis
DerivSeparations == {2 * Scale, 3 * Scale, 4 * Scale, 8 * Scale}
\* <<radial, tangential>> component of vel1 - vel2
DerivVelocities == {<<0, Dec(4, 10)>>, <<-Dec(1, 10), Dec(6, 10)>>}
DerivSteps == {Dec(1, 10), Dec(1, 2)}

\* the captured values of a closure, a state and a step
DerivProbe(m, sep, vel, pn, dt) ==
    [of |-> "deriv",
     deriv |-> make_deriv_func(m[1], m[2], pn[1], pn[2], pn[3]),
     state |-> BinaryState(<<sep \div 2, 0, 0>>, <<vel[1] \div 2, 0, vel[2] \div 2>>,
                           <<sep \div 2 - sep, 0, 0>>,
                           <<vel[1] \div 2 - vel[1], 0, vel[2] \div 2 - vel[2]>>, 0),
     dt |-> dt]

DerivProbes ==
    { DerivProbe(m, sep, vel, pn, dt) :
        m \in DerivMasses, sep \in DerivSeparations, vel \in DerivVelocities,
        pn \in BOOLEAN \X BOOLEAN \X BOOLEAN, dt \in DerivSteps }

InitDeriv == NoRun /\ probe \in DerivProbes /\ out = NoOut

\* deriv(state) is called
CallDeriv ==
    /\ probe.of = "deriv"
    /\ out = NoOut
    /\ out' = [of |-> "deriv", value |-> ApplyDeriv(probe.deriv, probe.state)]
    /\ UNCHANGED <<runVars, timeline, query, probe>>

\* rk4_step(state, dt, deriv) is called
CallRk4Step ==
    /\ probe.of = "deriv"
    /\ out = NoOut
    /\ out' = [of |-> "rk4_step", value |-> rk4_step(probe.state, probe.dt, probe.deriv)]
    /\ UNCHANGED <<runVars, timeline, query, probe>>

NextDeriv == CallDeriv \/ CallRk4Step

SpecDeriv == InitDeriv /\ [][NextDeriv]_vars

---------------------------------------------------------------------------
(* compute_relative_acceleration, compute_orbital_params and               *)
(* compute_gw_strain applied on their own                                  *)

\* <<m1, m2>>
PhysicsMasses == {<<Dec(1, 2), Dec(1, 2)>>, <<Dec(1, 4), Dec(3, 4)>>}
\* |x1 - x2|, the bodies on the x axis; 0: the bodies coincide
PhysicsSeparations == {0, 3 * Scale, 6 * Scale}
\* <<radial, tangential>> component of v1 - v2
PhysicsVelocities == {<<0, 0>>, <<0, Dec(4, 10)>>, <<-Dec(1, 10), Dec(6, 10)>>}
PhysicsDistances == {0, Scale, 10 * Scale}
PhysicsInclinations == {0, Scale}

\* two bodies, the post-Newtonian flags and an observer
PhysicsProbe(m, sep, vel, pn, distance, inclination) ==
    [of |-> "physics",
     bh1 |-> BlackHole(m[1], 0, <<sep \div 2, 0, 0>>,
                       <<vel[1] \div 2, 0, vel[2] \div 2>>, UnitY),
     bh2 |-> BlackHole(m[2], 0, <<sep \div 2 - sep, 0, 0>>,
                       <<vel[1] \div 2 - vel[1], 0, vel[2] \div 2 - vel[2]>>, UnitY),
     pn |-> pn,
     observer_distance |-> distance,
     observer_inclination |-> inclination]

PhysicsProbes ==
    { PhysicsProbe(m, sep, vel, pn, distance, inclination) :
        m \in PhysicsMasses, sep \in PhysicsSeparations, vel \in PhysicsVelocities,
        pn \in BOOLEAN \X BOOLEAN \X BOOLEAN, distance \in PhysicsDistances,
        inclination \in PhysicsInclinations }

InitPhysics == NoRun /\ probe \in PhysicsProbes /\ out = NoOut

\* compute_relative_acceleration(r, v, m1, m2, enable_1pn, enable_2pn, enable_25pn)
CallRelativeAcceleration ==
    /\ probe.of = "physics"
    /\ out = NoOut
    /\ out' = [of |-> "compute_relative_acceleration",
               value |-> compute_relative_acceleration(
                             VSub(probe.bh1.position, probe.bh2.position),
                             VSub(probe.bh1.velocity, probe.bh2.velocity),
                             probe.bh1.mass, probe.bh2.mass,
                             probe.pn[1], probe.pn[2], probe.pn[3])]
    /\ UNCHANGED <<runVars, timeline, query, probe>>

\* compute_orbital_params(bh1, bh2)
CallOrbitalParams ==
    /\ probe.of = "physics"
    /\ out = NoOut
    /\ out' = [of |-> "compute_orbital_params",
               value |-> compute_orbital_params(probe.bh1, probe.bh2)]
    /\ UNCHANGED <<runVars, timeline, query, probe>>

\* compute_gw_strain(bh1, bh2, observer_distance, observer_inclination)
CallGwStrain ==
    /\ probe.of = "physics"
    /\ out = NoOut
    /\ out' = [of |-> "compute_gw_strain",
               value |-> compute_gw_strain(probe.bh1, probe.bh2,
                                           probe.observer_distance,
                                           probe.observer_inclination)]
    /\ UNCHANGED <<runVars, timeline, query, probe>>

NextPhysics == CallRelativeAcceleration \/ CallOrbitalParams \/ CallGwStrain

SpecPhysics == InitPhysics /\ [][NextPhysics]_vars

---------------------------------------------------------------------------
(* final_mass_fraction, final_spin and recoil_kick applied on their own    *)

\* the symmetric mass ratio: 0, values of unequal masses, values within 0.01
\* of 0.25 and 0.25 itself
FitEtas == {0, Dec(1, 100), Dec(5, 100), Dec(1, 10), Dec(16, 100), Dec(2, 10),
            Dec(24, 100), Dec(241, 1000), Dec(245, 1000), Dec(25, 100)}
\* chi1, chi2
FitSpins == {-Dec(1, 2), -Dec(3, 10), 0, Dec(5, 1000), Dec(1, 100), Dec(3, 10),
             Dec(7, 10), Dec(99, 100)}

FitProbes ==
    { [of |-> "fit", eta |-> eta, chi1 |-> chi1, chi2 |-> chi2] :
        eta \in FitEtas, chi1 \in FitSpins, chi2 \in FitSpins }

InitFit == NoRun /\ probe \in FitProbes /\ out = NoOut

\* final_mass_fraction(eta, chi1, chi2)
CallFinalMassFraction ==
    /\ probe.of = "fit"
    /\ out = NoOut
    /\ out' = [of |-> "final_mass_fraction",
               value |-> final_mass_fraction(probe.eta, probe.chi1, probe.chi2)]
    /\ UNCHANGED <<runVars, timeline, query, probe>>

\* final_spin(eta, chi1, chi2)
CallFinalSpin ==
    /\ probe.of = "fit"
    /\ out = NoOut
    /\ out' = [of |-> "final_spin",
               value |-> final_spin(probe.eta, probe.chi1, probe.chi2)]
    /\ UNCHANGED <<runVars, timeline, query, probe>>

\* recoil_kick(eta, chi1, chi2)
CallRecoilKick ==
    /\ probe.of = "fit"
    /\ out = NoOut
    /\ out' = [of |-> "recoil_kick",
               value |-> recoil_kick(probe.eta, probe.chi1, probe.chi2)]
    /\ UNCHANGED <<runVars, timeline, query, probe>>

NextFit == CallFinalMassFraction \/ CallFinalSpin \/ CallRecoilKick

SpecFit == InitFit /\ [][NextFit]_vars

---------------------------------------------------------------------------
(* ringdown_strain applied on its own, at a series of times                *)

QNM(frequency, damping_time, amplitude, phase) ==
    [frequency |-> frequency, damping_time |-> damping_time,
     amplitude |-> amplitude, phase |-> phase]

\* modes of positive amplitude and damping time; with the distances of
\* StrainProbes the strain stays above the resolution of the arithmetic up to
\* three damping times
DampedModes ==
    { QNM(f, tau, A, 0) :
        f \in {Dec(1, 10), Dec(3, 10)}, tau \in {Dec(1, 2), 2 * Scale},
        A \in {Dec(15, 10), 20 * Scale} }

\* the mode of a result without merger, a mode that does not decay, a mode of
\* negative amplitude
OtherModes ==
    { QNMZero, QNM(Dec(1, 10), 0, Scale, 0), QNM(Dec(3, 10), Scale, -Scale, Dec(1, 2)) }

\* times before the merger
TimesBefore == <<-Scale, -1>>

\* times before the merger, then 0, tau/2, tau, 2 tau, 3 tau
TimesAround(tau) == TimesBefore \o <<0, RDiv(tau, 2), tau, 2 * tau, 3 * tau>>

StrainProbes ==
    { [of |-> "ringdown_strain", qnm |-> qnm, times |-> TimesAround(qnm.damping_time),
       observer_distance |-> D, observer_inclination |-> iota] :
        qnm \in DampedModes, D \in {Dec(1, 2), Scale}, iota \in {0, Scale} }
    \cup
    { [of |-> "ringdown_strain", qnm |-> qnm, times |-> TimesBefore,
       observer_distance |-> D, observer_inclination |-> iota] :
        qnm \in OtherModes, D \in {0, Scale}, iota \in {0, Scale} }

InitStrain == NoRun /\ probe \in StrainProbes /\ out = [of |-> "ringdown_strain", value |-> <<>>]

\* ringdown_strain(qnm, t, observer_distance, observer_inclination) at the next
\* time of the series; out.value[i] is the strain at probe.times[i]
CallRingdownStrain ==
    /\ probe.of = "ringdown_strain"
    /\ Len(out.value) < Len(probe.times)
    /\ out' = [out EXCEPT
                 !.value = Append(@, ringdown_strain(probe.qnm,
                                                     probe.times[Len(out.value) + 1],
                                                     probe.observer_distance,
                                                     probe.observer_inclination))]
    /\ UNCHANGED <<runVars, timeline, query, probe>>

NextStrain == CallRingdownStrain

SpecStrain == InitStrain /\ [][NextStrain]_vars

---------------------------------------------------------------------------
(* Two invocations of run_simulation, each on its own thread               *)

\* the local variables of the invocation that is running
Locals ==
    [config |-> config, pc |-> pc, state |-> state, bh1 |-> bh1, bh2 |-> bh2,
     result |-> result, last_record_time |-> last_record_time,
     last_phase |-> last_phase, step_count |-> step_count, ring_i |-> ring_i,
     calls |-> calls, remnant_calls |-> remnant_calls]

\* the locals of run_simulation(cfg) on entry to the inspiral loop
StartLocals(cfg) ==
    [config |-> cfg, pc |-> "inspiral",
     state |-> BinaryState(init_binary(cfg.binary)[1].position,
                           init_binary(cfg.binary)[1].velocity,
                           init_binary(cfg.binary)[2].position,
                           init_binary(cfg.binary)[2].velocity, 0),
     bh1 |-> init_binary(cfg.binary)[1], bh2 |-> init_binary(cfg.binary)[2],
     result |-> ResultZero(cfg), last_record_time |-> -cfg.record_interval,
     last_phase |-> 0, step_count |-> 0, ring_i |-> 0, calls |-> <<>>,
     remnant_calls |-> 0]

\* the invocation of locals l is the one that runs next
Resume(l) ==
    /\ config' = l.config
    /\ pc' = l.pc
    /\ state' = l.state
    /\ bh1' = l.bh1
    /\ bh2' = l.bh2
    /\ result' = l.result
    /\ last_record_time' = l.last_record_time
    /\ last_phase' = l.last_phase
    /\ step_count' = l.step_count
    /\ ring_i' = l.ring_i
    /\ calls' = l.calls
    /\ remnant_calls' = l.remnant_calls

\* the configurations of a sweep: fixed steps, three ringdown samples, every
\* step recorded; runs that merge, end at max_time, end at the step ceiling
\* and never enter the loop
PairConfigs ==
    { c \in Configs :
        /\ ~c.integrator.adaptive
        /\ c.binary.chi1 = 0
        /\ c.binary.initial_separation \in {Dec(55, 100), 3 * Scale}
        /\ c.ringdown_samples = 3
        /\ c.record_interval = 0
        /\ c.progress_callback }

\* invocation 1 is running and invocation 2, held in probe, has been entered
InitPair ==
    /\ \E c1 \in PairConfigs : RunStart(c1)
    /\ \E c2 \in PairConfigs :
          probe = [of |-> "run_simulation", id |-> 2, locals |-> StartLocals(c2)]
    /\ timeline = TimelineZero
    /\ query = NoQuery
    /\ out = NoOut

\* the scheduler takes the running invocation off and puts the other one on
Switch ==
    /\ probe.of = "run_simulation"
    /\ Resume(probe.locals)
    /\ probe' = [of |-> "run_simulation", id |-> 3 - probe.id, locals |-> Locals]
    /\ UNCHANGED <<timeline, query, out>>

\* the thread whose invocation has returned calls run_simulation(cfg) again
Invoke(cfg) ==
    /\ probe.of = "run_simulation"
    /\ pc = "done"
    /\ Resume(StartLocals(cfg))
    /\ UNCHANGED <<timeline, query, probe, out>>

NextPair ==
    \/ InspiralExit
    \/ InspiralMerge
    \/ InspiralStep
    \/ ReturnNoMerger
    \/ MergerRemnant
    \/ RingdownSample
    \/ RingdownDone
    \/ Switch
    \/ \E cfg \in PairConfigs : Invoke(cfg)

SpecPair == InitPair /\ [][NextPair]_vars

---------------------------------------------------------------------------
(* compute_remnant applied on its own, to pairs about to merge             *)

RemnantMasses == {<<Dec(1, 2), Dec(1, 2)>>, <<Dec(1, 4), Dec(3, 4)>>, <<Dec(6, 10), Dec(2, 10)>>}
RemnantSeparations == {Dec(2, 10), Dec(3, 10), Dec(4, 10)}
\* the relative velocity: across the line of the bodies, along it (head-on),
\* none (at rest), oblique
RemnantVelocities ==
    { <<0, 0, Dec(4, 10)>>, <<-Dec(4, 10), 0, 0>>, Zero3, <<-Dec(3, 10), 0, Dec(3, 10)>> }
RemnantSpins == {<<0, 0>>, <<Dec(1, 2), Dec(3, 10)>>}

\* two bodies sep apart on the x axis, of relative velocity vel, in the frame
\* of their centre of mass
RemnantProbe(m, sep, vel, chi) ==
    [of |-> "compute_remnant",
     bh1 |-> BlackHole(m[1], chi[1], <<FDiv(FMul(sep, m[2]), m[1] + m[2]), 0, 0>>,
                       VScale(FDiv(m[2], m[1] + m[2]), vel), UnitY),
     bh2 |-> BlackHole(m[2], chi[2], <<-FDiv(FMul(sep, m[1]), m[1] + m[2]), 0, 0>>,
                       VScale(-FDiv(m[1], m[1] + m[2]), vel), UnitY)]

RemnantProbes ==
    { RemnantProbe(m, sep, vel, chi) :
        m \in RemnantMasses, sep \in RemnantSeparations, vel \in RemnantVelocities,
        chi \in RemnantSpins }

InitRemnant == NoRun /\ probe \in RemnantProbes /\ out = NoOut

\* compute_remnant(bh1, bh2) is called
CallComputeRemnant ==
    /\ probe.of = "compute_remnant"
    /\ out = NoOut
    /\ out' = [of |-> "compute_remnant", value |-> compute_remnant(probe.bh1, probe.bh2)]
    /\ UNCHANGED <<runVars, timeline, query, probe>>

NextRemnant == CallComputeRemnant

SpecRemnant == InitRemnant /\ [][NextRemnant]_vars

---------------------------------------------------------------------------
(* Properties of run_simulation                                            *)

\* the position of a phase tag in the order inspiral, merger, ringdown
TagRank(tag) == IF tag = 0 THEN 0 ELSE IF tag = 1 THEN 1 ELSE 2

\* tags 0 come first, then at most one tag 1, then tags 2 and 3
PhasesOrdered(frames) ==
    \A i, j \in 1..Len(frames) :
        i < j => /\ TagRank(frames[i].phase) <= TagRank(frames[j].phase)
                 /\ ~(frames[i].phase = 1 /\ frames[j].phase = 1)

HasTag(frames, tag) == \E i \in 1..Len(frames) : frames[i].phase = tag

\* frames is a prefix of later, and later adds no frame of the tag
ExtendsWithout(frames, later, tag) ==
    /\ Len(frames) <= Len(later)
    /\ \A i \in 1..Len(later) :
          IF i <= Len(frames) THEN later[i] = frames[i] ELSE later[i].phase # tag

\* once the merger frame is recorded: no RK4 step, no further inspiral frame
MergerIsFinal ==
    HasTag(result.frames, 1) =>
        /\ state' = state
        /\ step_count' = step_count
        /\ ExtendsWithout(result.frames, result'.frames, 0)
        /\ ExtendsWithout(result.frames, result'.frames, 1)

\* C1: in the frames of a run every frame tagged 0 precedes the frame tagged 1,
\* which precedes every frame tagged 2 or 3; at most one frame is tagged 1; and
\* once it is recorded no RK4 step is taken and no frame tagged 0 is appended.
C1_PhaseOrder == [](PhasesOrdered(result.frames)) /\ [][MergerIsFinal]_vars

\* a returned run with inspiral frames, the merger frame after a positive number
\* of RK4 steps, and ringdown frames
C1_Witness ==
    /\ pc = "done"
    /\ step_count > 0
    /\ HasTag(result.frames, 0)
    /\ HasTag(result.frames, 1)
    /\ Len(result.frames) > result.num_inspiral_frames + 1
    /\ result.frames[Len(result.frames)].phase \in {2, 3}

\* the bounds of the two loops of a run
LoopsBounded ==
    /\ step_count <= StepCeiling + 1
    /\ ring_i <= RingdownIterations(config)
    /\ (Returned /\ result.merger_occurred) => ring_i = RingdownIterations(config)
    /\ (Returned /\ ~result.merger_occurred) => ring_i = 0

\* C2 (as the code has it): every run returns; the inspiral loop takes at most
\* ceiling + 1 RK4 steps, the ceiling being tested with > after the increment;
\* the ringdown loop, entered only after a merger, performs max(0,
\* ringdown_samples) iterations.
C2_Terminates == <>Returned /\ []LoopsBounded

\* a run that neither merged nor reached max_time, stopped by the ceiling
C2_Witness ==
    /\ pc = "done"
    /\ step_count = StepCeiling + 1
    /\ state.time < config.max_time
    /\ ~result.merger_occurred

\* C2 as stated: no more than the ceiling of RK4 steps, and exactly
\* ringdown_samples ringdown iterations after a merger
C2_AsStated ==
    /\ step_count <= StepCeiling
    /\ (Returned /\ result.merger_occurred) => ring_i = config.ringdown_samples

\* the inspiral loop was left by its condition or by the ceiling, not by a merger
LoopRanOut == ~(state.time < config.max_time) \/ CeilingReached(step_count)

\* C3: a run whose loop ends at max_time or at the step ceiling without
\* should_merge having held returns merger_occurred = false, frames all tagged
\* 0, no remnant or QNM parameters, no ringdown frame, num_ringdown_frames = 0.
C3_NoMerger ==
    (Returned /\ LoopRanOut) =>
        /\ ~result.merger_occurred
        /\ \A i \in 1..Len(result.frames) : result.frames[i].phase = 0
        /\ remnant_calls = 0
        /\ result.remnant = RemnantZero
        /\ result.qnm = QNMZero
        /\ ring_i = 0
        /\ result.num_ringdown_frames = 0
        /\ result.num_inspiral_frames = Len(result.frames)

\* a run returned at max_time with several inspiral frames, ringdown configured
C3_Witness ==
    /\ pc = "done"
    /\ ~(state.time < config.max_time)
    /\ step_count > 0
    /\ Len(result.frames) > 1
    /\ config.ringdown_samples > 0
    /\ ~result.merger_occurred

\* a merger was detected and the remnant computed
Merged == pc \in {"ringdown", "done", "built"} /\ result.merger_occurred

\* the merger frame of a merged run: the last of the num_inspiral_frames
MergerFrame(res) == res.frames[res.num_inspiral_frames]

\* the frames after the merger frame of a merged run
RingdownFrames(res) == SubSeq(res.frames, res.num_inspiral_frames + 1, Len(res.frames))

\* the i-th ringdown frame, i from 0, is at offset i * (duration / samples)
RingdownFrameIsAt(res, cfg, f, i) ==
    /\ f.time = res.merger_time + i * RDiv(cfg.ringdown_duration, cfg.ringdown_samples)
    /\ f.bh2.mass = 0
    /\ f.bh1.position
         = VAdd(res.remnant.position,
                VScale(i * RDiv(cfg.ringdown_duration, cfg.ringdown_samples),
                       res.remnant.velocity))

RingdownAppended ==
    (Returned /\ result.merger_occurred) =>
        /\ MergerFrame(result).phase = 1
        /\ Len(RingdownFrames(result)) = RingdownIterations(config)
        /\ result.num_ringdown_frames = config.ringdown_samples
        /\ \A i \in 1..Len(RingdownFrames(result)) :
              RingdownFrameIsAt(result, config, RingdownFrames(result)[i], i - 1)

\* the ringdown loop leaves the integrator alone
RingdownKeepsState == pc = "ringdown" => (state' = state /\ step_count' = step_count)

\* C6 (as the code has it): when merger is detected and ringdown_samples >= 0,
\* exactly ringdown_samples frames follow the merger frame, none when
\* ringdown_samples < 0 (num_ringdown_frames is ringdown_samples either way); the
\* i-th has time merger_time + i*(ringdown_duration/ringdown_samples), a second
\* body of mass 0 and first-body position remnant position + remnant velocity *
\* i*(ringdown_duration/ringdown_samples); the integrator state is not advanced
\* during ringdown.
C6_Ringdown == []RingdownAppended /\ [][RingdownKeepsState]_vars

\* a run merged after RK4 steps, with three ringdown frames spread over time
C6_Witness ==
    /\ pc = "done"
    /\ result.merger_occurred
    /\ result.merger_time > 0
    /\ config.ringdown_samples = 3
    /\ Len(RingdownFrames(result)) = 3
    /\ RingdownFrames(result)[3].time > result.merger_time

\* C6 as stated: exactly ringdown_samples frames after the merger frame
C6_AsStated ==
    (Returned /\ result.merger_occurred) =>
        /\ Len(RingdownFrames(result)) = config.ringdown_samples
        /\ \A i \in 1..Len(RingdownFrames(result)) :
              RingdownFrameIsAt(result, config, RingdownFrames(result)[i], i - 1)

\* every step the integrator takes under cfg is positive
PositiveSteps(cfg) ==
    IF cfg.integrator.adaptive THEN cfg.integrator.dt_min > 0
    ELSE cfg.integrator.dt_initial > 0

\* non-decreasing times; strictly increasing from an inspiral frame to a later
\* inspiral or merger frame
TimesOrdered(frames) ==
    \A i, j \in 1..Len(frames) :
        i < j => /\ frames[i].time <= frames[j].time
                 /\ (frames[i].phase = 0 /\ frames[j].phase \in {0, 1})
                        => frames[i].time < frames[j].time

\* frames are appended, never removed or changed
AppendOnly ==
    /\ Len(result.frames) <= Len(result'.frames)
    /\ \A i \in 1..Len(result.frames) : result'.frames[i] = result.frames[i]

\* C8: with positive step sizes and ringdown_duration >= 0 frame times are
\* non-decreasing in sequence order: inspiral frame times strictly increase, the
\* merger frame is later than the last inspiral frame, ringdown frames are at or
\* after the merger frame; frames are only appended.
C8_TimeOrder ==
    /\ []((PositiveSteps(config) /\ config.ringdown_duration >= 0)
             => TimesOrdered(result.frames))
    /\ [][AppendOnly]_vars

\* a returned run with several inspiral frames, a merger frame and ringdown
\* frames at different times
C8_Witness ==
    /\ pc = "done"
    /\ PositiveSteps(config)
    /\ result.merger_occurred
    /\ result.num_inspiral_frames >= 3
    /\ Len(RingdownFrames(result)) >= 2
    /\ result.frames[Len(result.frames)].time > result.merger_time

\* remnant and quasinormal mode of a merged run come from the merger frame
RemnantFromMergerFrame ==
    Merged =>
        /\ MergerFrame(result).phase = 1
        /\ result.merger_time = MergerFrame(result).time
        /\ result.remnant = compute_remnant(MergerFrame(result).bh1, MergerFrame(result).bh2)
        /\ result.qnm = compute_qnm_222(result.remnant.mass, result.remnant.spin,
                                        FMul(MergerFrame(result).gw.amplitude,
                                             config.observer_distance))
        /\ \A i \in 1..Len(RingdownFrames(result)) :
              /\ RingdownFrames(result)[i].bh1.mass = result.remnant.mass
              /\ RingdownFrames(result)[i].bh1.chi = result.remnant.spin
              /\ RingdownFrames(result)[i].bh1.velocity = result.remnant.velocity

RemnantOnce ==
    /\ remnant_calls = IF Merged THEN 1 ELSE 0
    /\ ~Merged => (result.remnant = RemnantZero /\ result.qnm = QNMZero)

\* after the transition the remnant, the mode and merger_time stay as they are
RemnantKept ==
    Merged => /\ result'.remnant = result.remnant
              /\ result'.qnm = result.qnm
              /\ result'.merger_time = result.merger_time
              /\ remnant_calls' = remnant_calls

\* C9: RemnantProperties and QNMParameters are computed once per run, only when
\* merger was detected, from the body state of the merger frame; merger_time is
\* the merger frame's time; every ringdown frame carries the same remnant mass,
\* spin and velocity, none of them changed after the transition.
C9_RemnantOnce == [](RemnantOnce /\ RemnantFromMergerFrame) /\ [][RemnantKept]_vars

\* a returned run merged after RK4 steps, from bodies that are no longer where
\* they started, with ringdown frames
C9_Witness ==
    /\ pc = "done"
    /\ result.merger_occurred
    /\ step_count > 0
    /\ remnant_calls = 1
    /\ MergerFrame(result).bh1.position # init_binary(config.binary)[1].position
    /\ Len(RingdownFrames(result)) >= 2

---------------------------------------------------------------------------
(* Properties of CollisionTimeline::interpolate                            *)

\* an interpolate call on a timeline with frames has returned
Answered == pc = "built" /\ query.asked /\ query.returns /\ timeline.frames # <<>>

---------------------------------------------------------------------------
(* Properties of should_merge and adaptive_timestep                        *)

Separation(b1, b2) == Length(VSub(b1.position, b2.position))
RelativeSpeed(b1, b2) == Length(VSub(b1.velocity, b2.velocity))

\* two bodies of mass 0.5 at rest, tested with the default critical factor
HalfMassesAtRest ==
    /\ probe.bh1.mass = Dec(1, 2)
    /\ probe.bh2.mass = Dec(1, 2)
    /\ RelativeSpeed(probe.bh1, probe.bh2) = 0
    /\ probe.critical_factor = DefaultCriticalFactor

\* C4: should_merge with its default critical factor on two bodies of mass 0.5
\* at rest returns false at separation 20 and true at separation 3.
C4_Threshold ==
    (out.of = "should_merge" /\ HalfMassesAtRest) =>
        /\ Separation(probe.bh1, probe.bh2) = 20 * Scale => ~out.value
        /\ Separation(probe.bh1, probe.bh2) = 3 * Scale => out.value

\* |x1 - x2| <= cf * (2*m1 + 2*m2) / 2  or  |v1 - v2| > 2.0
MergeCriterion(x1, x2, v1, v2, m1, m2, cf) ==
    \/ Length(VSub(x1, x2)) <= RDiv(FMul(cf, 2 * m1 + 2 * m2), 2)
    \/ Length(VSub(v1, v2)) > 2 * Scale

ShouldMergeIsCriterion ==
    out.of = "should_merge" =>
        out.value = MergeCriterion(probe.bh1.position, probe.bh2.position,
                                   probe.bh1.velocity, probe.bh2.velocity,
                                   probe.bh1.mass, probe.bh2.mass,
                                   probe.critical_factor)

InRange(x, lo, hi) == IsFinite(x) /\ lo <= x /\ x <= hi

---------------------------------------------------------------------------
(* Properties of the blend of two timeline frames                          *)

\* the blend factor of t between the frames a and b
BlendFactor(a, b, t) ==
    Max(0, Min(Scale, ToFloat(FDiv(ToFloat(t - a.time), ToFloat(b.time - a.time)))))

\* the last query lies strictly between the frames i and i + 1 of the timeline
Between(i) ==
    /\ pc = "built"
    /\ query.asked
    /\ timeline.frames[i].time < query.t
    /\ query.t < timeline.frames[i + 1].time

\* phase and num_black_holes of d are those of a below the factor 0.5, of b otherwise
FromNearer(d, a, b, alpha) ==
    /\ d.phase = IF alpha < Dec(5, 10) THEN a.phase ELSE b.phase
    /\ d.num_black_holes =
           IF alpha < Dec(5, 10) THEN a.num_black_holes ELSE b.num_black_holes

\* C11: for t strictly between the times of two adjacent timeline frames a and
\* b, interpolate returns phase and num_black_holes copied from a when the blend
\* factor is below 0.5 and from b otherwise: both are values of one of the two
\* bracketing frames, never blended.
C11_NearerEndpoint ==
    \A i \in 1..(Len(timeline.frames) - 1) :
        Between(i) =>
            /\ query.returns
            /\ FromNearer(query.data, timeline.frames[i], timeline.frames[i + 1],
                          BlendFactor(timeline.frames[i], timeline.frames[i + 1],
                                      query.t))

\* a query between two frames of different phase tags
C11_Witness ==
    \E i \in 1..(Len(timeline.frames) - 1) :
        /\ Between(i)
        /\ timeline.frames[i].phase # timeline.frames[i + 1].phase
        /\ query.data.phase = timeline.frames[i + 1].phase

---------------------------------------------------------------------------
(* Properties of CollisionTimeline::build                                  *)

\* the render frame r shows the simulation frame f
Renders(r, f) ==
    /\ r.phase = f.phase
    /\ r.time = ToFloat(f.time)
    /\ r.black_holes[1].mass = ToFloat(f.bh1.mass)
    /\ r.black_holes[1].position = ToFloat3(f.bh1.position)
    /\ r.num_black_holes = 2 <=> f.phase \in {0, 1}
    /\ r.num_black_holes = 1 <=> f.phase \notin {0, 1}

\* idx is the 0-based index of the first frame tagged 1, or -1 without one
FirstMergerIndex(frames, idx) ==
    IF \E i \in 1..Len(frames) : frames[i].phase = 1
    THEN /\ idx >= 0
         /\ idx < Len(frames)
         /\ frames[idx + 1].phase = 1
         /\ \A j \in 1..idx : frames[j].phase # 1
    ELSE idx = -1

\* C12: build gives one render frame per simulation frame, in the same order
\* and with the same phase tag; num_black_holes is 2 iff the tag is 0 or 1 and 1
\* otherwise; total_duration is the time of the last frame; merger_frame_index
\* is the index of the first frame tagged 1, or -1 without one or without frames.
C12_Build ==
    pc = "built" =>
        /\ Len(timeline.frames) = Len(result.frames)
        /\ \A i \in 1..Len(result.frames) : Renders(timeline.frames[i], result.frames[i])
        /\ result.frames # <<>> =>
               /\ timeline.total_duration = timeline.frames[Len(timeline.frames)].time
               /\ timeline.total_duration
                      = ToFloat(result.frames[Len(result.frames)].time)
        /\ FirstMergerIndex(result.frames, timeline.merger_frame_index)

\* the timeline of a run with inspiral, merger and ringdown frames
C12_Witness ==
    /\ pc = "built"
    /\ timeline.merger_frame_index >= 2
    /\ Len(timeline.frames) >= timeline.merger_frame_index + 3
    /\ timeline.frames[1].num_black_holes = 2
    /\ timeline.frames[Len(timeline.frames)].num_black_holes = 1
    /\ timeline.total_duration > timeline.merger_time

---------------------------------------------------------------------------
(* Properties of the progress callback                                     *)

\* every invocation passes a fraction in [0, 1] and one of the two phase names
CallsInRange ==
    \A i \in 1..Len(calls) :
        /\ IsFinite(calls[i].frac)
        /\ 0 <= calls[i].frac
        /\ calls[i].frac <= Scale
        /\ calls[i].name \in {"inspiral", "ringdown"}

\* no "inspiral" invocation after a "ringdown" one
CallsOrdered ==
    \A i, j \in 1..Len(calls) :
        (i < j /\ calls[i].name = "ringdown") => calls[j].name = "ringdown"

\* an inspiral iteration that notifies: step_count a multiple of the cadence,
\* no merger, and state and frames as the iteration leaves them without it
InspiralNotice ==
    LET b1 == Synced(bh1, state.pos1, state.vel1)
        b2 == Synced(bh2, state.pos2, state.vel2)
    IN  /\ pc = "inspiral"
        /\ step_count % ProgressSteps = 0
        /\ ~should_merge(b1, b2, DefaultCriticalFactor)
        /\ calls'[Len(calls')].time = state.time
        /\ state' = rk4_step(state,
                             adaptive_timestep(state, config.integrator,
                                               b1.mass + b2.mass),
                             deriv(config))
        /\ result'.frames \in
               {result.frames,
                Append(result.frames,
                       make_frame(state.time, b1, b2, config.observer_distance,
                                  config.observer_inclination, 0))}

\* a ringdown iteration that notifies: the sample index a multiple of the
\* cadence, the state untouched, the frames extended by the sample alone
RingdownNotice ==
    /\ pc = "ringdown"
    /\ ring_i % RingdownProgress = 0
    /\ calls'[Len(calls')].time = result.merger_time + ring_i * ringdown_dt(config)
    /\ state' = state
    /\ result'.frames = Append(result.frames, RingdownFrame(result, config, ring_i))

\* a step that invokes the callback invokes it once, as one of the two notices
NoticeStep ==
    calls' # calls =>
        /\ Len(calls') = Len(calls) + 1
        /\ SubSeq(calls', 1, Len(calls)) = calls
        /\ IF calls'[Len(calls')].name = "inspiral" THEN InspiralNotice
           ELSE RingdownNotice

---------------------------------------------------------------------------
(* Properties of the derivative closure and rk4_step                       *)

\* the rounding of the products that make up a sum of the magnitude total:
\* three units of the resolution and 2/Scale of the magnitude
RoundingSlack(total) == 3 + (2 * total) \div Scale

\* m1 * u + m2 * w is zero in each component, up to rounding
Balanced(m1, u, m2, w) ==
    \A c \in 1..3 :
        Abs(FMul(m1, u[c]) + FMul(m2, w[c])) <= RoundingSlack(Abs(u[c]) + Abs(w[c]))

\* C14: at a separation of at least 1e-10 and with any post-Newtonian flags the
\* accelerations of the two bodies satisfy m1*a1 + m2*a2 = 0, and the total
\* momentum m1*vel1 + m2*vel2 after an rk4_step is the momentum before it (up
\* to the rounding of the arithmetic).
C14_Momentum ==
    /\ out.of = "deriv" =>
           Balanced(probe.deriv.m1, out.value.dvel1, probe.deriv.m2, out.value.dvel2)
    /\ out.of = "rk4_step" =>
           Balanced(probe.deriv.m1, VSub(out.value.vel1, probe.state.vel1),
                    probe.deriv.m2, VSub(out.value.vel2, probe.state.vel2))

\* a step of two unequal bodies under all post-Newtonian terms that changes both
\* velocities
C14_Witness ==
    /\ out.of = "rk4_step"
    /\ probe.deriv.m1 # probe.deriv.m2
    /\ probe.deriv.pn1 /\ probe.deriv.pn2 /\ probe.deriv.pn25
    /\ Abs(out.value.vel1[1] - probe.state.vel1[1]) > 10
    /\ Abs(out.value.vel2[1] - probe.state.vel2[1]) > 10

---------------------------------------------------------------------------
(* Properties of the physics functions near zero separation                *)

\* the two bodies of the call are closer than 1e-10
NearZero == out.of # "none" /\ Separation(probe.bh1, probe.bh2) < SepEps

\* every field of p that depends on the separation is zero
SeparationFieldsZero(p) ==
    /\ p.orbital_frequency = 0
    /\ p.orbital_phase = 0
    /\ p.radial_velocity = 0
    /\ p.velocity_param = 0
    /\ p.energy = 0
    /\ p.angular_momentum = 0

\* C15: at a separation below 1e-10 compute_relative_acceleration returns zero
\* for all four terms whatever the flags, compute_orbital_params returns zero
\* for every separation-dependent field, and compute_gw_strain returns all-zero
\* strain, as it does at an observer distance below 1e-10; no value is divided
\* by the separation.
C15_NearZero ==
    /\ (NearZero /\ out.of = "compute_relative_acceleration") => out.value = AccelZero
    /\ (NearZero /\ out.of = "compute_orbital_params") =>
           /\ SeparationFieldsZero(out.value)
           /\ out.value.separation = 0
    /\ (NearZero /\ out.of = "compute_gw_strain") => out.value = GWZero
    /\ (out.of = "compute_gw_strain" /\ probe.observer_distance < SepEps) =>
           out.value = GWZero

\* the orbital parameters of two coincident bodies that move against each other
C15_Witness ==
    /\ NearZero
    /\ out.of = "compute_orbital_params"
    /\ RelativeSpeed(probe.bh1, probe.bh2) > 0
    /\ out.value.total_mass = Scale
    /\ out.value.reduced_mass > 0

---------------------------------------------------------------------------
(* Properties of final_mass_fraction, final_spin and recoil_kick           *)

\* eta in (0, 0.25] and both spins in [0, 1)
FitDomain ==
    /\ 0 < probe.eta /\ probe.eta <= Dec(25, 100)
    /\ 0 <= probe.chi1 /\ probe.chi1 < Scale
    /\ 0 <= probe.chi2 /\ probe.chi2 < Scale

\* the value of SpinFit ahead of its clamp, for the arguments of the call
SpinAheadOfClamp ==
    SpinFitUnclamped(probe.eta, FSqrt(Scale - 4 * probe.eta),
                     FMul(Dec(5, 10),
                          FMul(Scale + FSqrt(Scale - 4 * probe.eta), probe.chi1)
                          + FMul(Scale - FSqrt(Scale - 4 * probe.eta), probe.chi2)))

\* C16 (as the code has it): for eta in (0, 0.25] and spins in [0, 1),
\* final_mass_fraction returns a value in [0.9, 1.0] and final_spin a value in
\* [0, 0.998], the bound 0.998 included, whatever the polynomial evaluates to.
C16_FitRanges ==
    FitDomain =>
        /\ out.of = "final_mass_fraction" =>
               (Dec(9, 10) <= out.value /\ out.value <= Scale)
        /\ out.of = "final_spin" =>
               (0 <= out.value /\ out.value <= Dec(998, 1000))

\* a final_spin call whose polynomial lies above 0.998
C16_Witness ==
    /\ FitDomain
    /\ out.of = "final_spin"
    /\ SpinAheadOfClamp > Dec(998, 1000)
    /\ out.value = Dec(998, 1000)

\* C16 as stated: final_spin in [0, 0.998), the bound excluded
C16_AsStated ==
    FitDomain =>
        /\ out.of = "final_mass_fraction" =>
               (Dec(9, 10) <= out.value /\ out.value <= Scale)
        /\ out.of = "final_spin" =>
               (0 <= out.value /\ out.value < Dec(998, 1000))

\* |eta - 0.25| < 0.01 and |(chi1 + chi2) / 2| < 0.01
CalibrationPoint ==
    /\ Abs(probe.eta - Dec(25, 100)) < Dec(1, 100)
    /\ Abs(FMul(Dec(5, 10), probe.chi1 + probe.chi2)) < Dec(1, 100)

\* C17: final_mass_fraction returns exactly 1 - 0.035 = 0.965 whenever
\* |eta - 0.25| < 0.01 and |(chi1 + chi2) / 2| < 0.01, whatever the polynomial
\* gives; for eta = 0.25 and chi1 = chi2 = 0, final_spin is within 0.05 of 0.69.
C17_Calibration ==
    /\ (out.of = "final_mass_fraction" /\ CalibrationPoint) =>
           out.value = Scale - Dec(35, 1000)
    /\ (out.of = "final_spin" /\ probe.eta = Dec(25, 100)
          /\ probe.chi1 = 0 /\ probe.chi2 = 0) =>
           Abs(out.value - Dec(69, 100)) <= Dec(5, 100)

\* a call next to the calibration point, with spins, where the polynomial gives
\* another value
C17_Witness ==
    /\ out.of = "final_mass_fraction"
    /\ CalibrationPoint
    /\ probe.eta # Dec(25, 100)
    /\ probe.chi1 # 0
    /\ final_mass_fraction_fitted(probe.eta, probe.chi1, probe.chi2) # out.value

\* C18: recoil_kick is non-negative for every eta in [0, 0.25] and every pair
\* of spins, and is below 0.001 (0 in fact) for eta = 0.25 with chi1 = chi2.
C18_Recoil ==
    (out.of = "recoil_kick" /\ 0 <= probe.eta /\ probe.eta <= Dec(25, 100)) =>
        /\ out.value >= 0
        /\ (probe.eta = Dec(25, 100) /\ probe.chi1 = probe.chi2) =>
               (out.value < Dec(1, 1000) /\ out.value = 0)

\* the kick of unequal masses whose first spin is the smaller one
C18_Witness ==
    /\ out.of = "recoil_kick"
    /\ probe.eta = Dec(2, 10)
    /\ probe.chi1 < probe.chi2
    /\ out.value > 0

---------------------------------------------------------------------------
(* Properties of ringdown_strain                                           *)

\* the calls made so far, as indices into probe.times
StrainCalls == IF out.of = "ringdown_strain" THEN 1..Len(out.value) ELSE {}

\* C19: ringdown_strain returns all-zero strain (h_plus = h_cross = amplitude =
\* frequency = 0) for every t_after_merger < 0, whatever the mode, the distance
\* and the inclination.
C19_BeforeMerger ==
    \A i \in StrainCalls :
        probe.times[i] < 0 =>
            /\ out.value[i].h_plus = 0
            /\ out.value[i].h_cross = 0
            /\ out.value[i].amplitude = 0
            /\ out.value[i].frequency = 0

\* a call before the merger on a mode that rings at the time of the merger
C19_Witness ==
    \E i, j \in StrainCalls :
        /\ probe.times[i] < 0
        /\ probe.times[j] = 0
        /\ probe.qnm.frequency > 0
        /\ out.value[j].amplitude > 0
        /\ out.value[i] = GWZero

\* a mode of positive amplitude and damping time seen at inclination 0
Damped ==
    /\ probe.of = "ringdown_strain"
    /\ probe.qnm.amplitude > 0
    /\ probe.qnm.damping_time > 0
    /\ probe.observer_inclination = 0

\* the amplitude at tau is the amplitude at 0 divided by e, within 0.1
OneOverE(a_tau, a_0) == Abs(FDiv(a_tau, a_0) - Dec(3679, 10000)) <= Dec(1, 10)

\* C20: for a mode of positive amplitude and damping time tau seen at
\* inclination 0, the amplitude of ringdown_strain is positive at t = 0,
\* strictly decreases with t, is the t = 0 amplitude divided by e at t = tau
\* (ratio within 0.1 of 1/e), and at t = 3 tau is strictly below that at tau.
C20_Damping ==
    Damped =>
        \A i, j \in StrainCalls :
            /\ probe.times[i] = 0 => out.value[i].amplitude > 0
            /\ (0 <= probe.times[i] /\ probe.times[i] < probe.times[j]) =>
                   out.value[j].amplitude < out.value[i].amplitude
            /\ (probe.times[i] = 0 /\ probe.times[j] = probe.qnm.damping_time) =>
                   OneOverE(out.value[j].amplitude, out.value[i].amplitude)
            /\ (probe.times[i] = probe.qnm.damping_time
                  /\ probe.times[j] = 3 * probe.qnm.damping_time) =>
                   out.value[j].amplitude < out.value[i].amplitude

\* a series up to 3 tau whose last amplitude is still above zero
C20_Witness ==
    /\ Damped
    /\ Len(out.value) = Len(probe.times)
    /\ probe.times[Len(probe.times)] = 3 * probe.qnm.damping_time
    /\ out.value[Len(out.value)].amplitude > 0
    /\ out.value[Len(out.value)].amplitude < out.value[Len(out.value) - 2].amplitude

---------------------------------------------------------------------------
(* Properties of two invocations of run_simulation                         *)

\* both invocations were given the same configuration
SameConfig == probe.of = "run_simulation" /\ probe.locals.config = config

\* both invocations are at the same place of the code
SameControl ==
    /\ probe.locals.pc = pc
    /\ probe.locals.step_count = step_count
    /\ probe.locals.ring_i = ring_i

---------------------------------------------------------------------------
(* Properties of the recording cadence                                     *)

\* record_interval / 4000 below 10 total masses, record_interval otherwise
EffectiveAt(separation, total_mass, record_interval) ==
    IF separation < 10 * total_mass THEN RDiv(record_interval, 4000)
    ELSE record_interval

TotalMass(cfg) == cfg.binary.m1 + cfg.binary.m2

\* the step from this state to the next is an inspiral iteration without merger
InspiralIteration == pc = "inspiral" /\ step_count' = step_count + 1

\* the frames of f tagged 0, in order
RECURSIVE InspiralFrames(_)
InspiralFrames(f) ==
    IF f = <<>> THEN <<>>
    ELSE IF f[1].phase = 0 THEN <<f[1]>> \o InspiralFrames(Tail(f))
    ELSE InspiralFrames(Tail(f))

\* an inspiral iteration records a frame tagged 0 at the current time if and
\* only if time - last_record_time >= effective interval
RecordedIffDue ==
    InspiralIteration =>
        IF state.time - last_record_time
             >= EffectiveAt(Length(VSub(state.pos1, state.pos2)), TotalMass(config),
                            config.record_interval)
        THEN /\ Len(result'.frames) = Len(result.frames) + 1
             /\ result'.frames[Len(result'.frames)].phase = 0
             /\ result'.frames[Len(result'.frames)].time = state.time
             /\ SubSeq(result'.frames, 1, Len(result.frames)) = result.frames
             /\ last_record_time' = state.time
        ELSE /\ result'.frames = result.frames
             /\ last_record_time' = last_record_time

\* after an inspiral iteration, the first frame is the initial state at time 0
InitialRecorded ==
    step_count > 0 =>
        /\ result.frames # <<>>
        /\ result.frames[1].phase = 0
        /\ result.frames[1].time = 0
        /\ result.frames[1].bh1 = init_binary(config.binary)[1]
        /\ result.frames[1].bh2 = init_binary(config.binary)[2]

\* consecutive inspiral frames are at least the effective interval, taken at
\* the later frame, apart
FramesSpaced(f, cfg) ==
    \A i \in 1..(Len(f) - 1) :
        f[i + 1].time - f[i].time
            >= EffectiveAt(f[i + 1].orbital.separation, TotalMass(cfg),
                           cfg.record_interval)

\* C22: on an inspiral iteration where merger is not detected, a frame tagged 0
\* is recorded if and only if time - last_record_time >= effective interval
\* (record_interval / 4000 when the separation is below 10 (m1 + m2),
\* record_interval otherwise); consecutive inspiral frames are at least the
\* effective interval, evaluated at the later frame, apart; and when
\* record_interval >= 0 the initial state at time 0 is recorded.
C22_Cadence ==
    /\ [](FramesSpaced(InspiralFrames(result.frames), config))
    /\ [](config.record_interval >= 0 => InitialRecorded)
    /\ [][RecordedIffDue]_vars

\* a run above 10 total masses that has skipped steps between two frames
C22_Witness ==
    /\ config.record_interval > 0
    /\ Len(result.frames) >= 2
    /\ result.frames[2].phase = 0
    /\ result.frames[2].orbital.separation >= 10 * TotalMass(config)
    /\ result.frames[2].time >= result.frames[1].time + config.record_interval
    /\ step_count > Len(result.frames)

\* C22 as stated: the initial state at time 0 is always recorded
C22_AsStated == InitialRecorded

---------------------------------------------------------------------------
(* Properties of the cycle counter                                         *)

\* d wrapped into (-pi, pi]
Wrapped(d) == IF d <= -Pi THEN d + 2 * Pi ELSE IF d > Pi THEN d - 2 * Pi ELSE d

\* the orbital phase of the last recorded frame, 0 before the first one
RecordedPhase(f) == IF f = <<>> THEN 0 ELSE f[Len(f)].orbital.orbital_phase

\* what recording the frame g after the frames f adds to the counter
CyclesAdded(f, g) ==
    FDiv(Abs(Wrapped(g.orbital.orbital_phase - RecordedPhase(f))), Pi)

\* a step that records an inspiral frame adds |d| / pi, at most 1; every other
\* step leaves the counter as it is
CyclesStep ==
    IF InspiralIteration /\ Len(result'.frames) = Len(result.frames) + 1
    THEN /\ result'.total_gw_cycles
              = result.total_gw_cycles
                  + CyclesAdded(result.frames, result'.frames[Len(result'.frames)])
         /\ result'.total_gw_cycles >= result.total_gw_cycles
         /\ result'.total_gw_cycles <= result.total_gw_cycles + Scale
    ELSE result'.total_gw_cycles = result.total_gw_cycles

\* C23: total_gw_cycles changes only when an inspiral frame is recorded: it
\* then grows by |d| / pi, d the change of orbital phase since the previously
\* recorded frame wrapped into (-pi, pi]; unrecorded steps, the merger frame
\* and the ringdown leave it unchanged, so it never decreases and a recorded
\* frame adds at most 1.
C23_Cycles == [](result.total_gw_cycles >= 0) /\ [][CyclesStep]_vars

\* a run past its ringdown whose phase difference was wrapped on the way
C23_Witness ==
    /\ pc = "done"
    /\ result.num_ringdown_frames > 0
    /\ result.total_gw_cycles > Scale
    /\ \E i \in 1..(Len(result.frames) - 1) :
          /\ result.frames[i + 1].phase = 0
          /\ Abs(result.frames[i + 1].orbital.orbital_phase
                   - result.frames[i].orbital.orbital_phase) > Pi

---------------------------------------------------------------------------
(* Properties of the ringdown phase tags                                   *)

\* the amplitude a is greater than 1e-30
Audible(a) == a # NaN /\ a > AmplitudeEps

\* C24: each ringdown frame is tagged 2 if and only if its synthesized strain
\* amplitude is greater than 1e-30, and tagged 3 otherwise; no ringdown frame
\* carries tag 0 or 1.
C24_RingdownTags ==
    Merged =>
        \A i \in 1..Len(RingdownFrames(result)) :
            /\ RingdownFrames(result)[i].phase \in {2, 3}
            /\ RingdownFrames(result)[i].phase = 2
                  <=> Audible(RingdownFrames(result)[i].gw.amplitude)

\* a returned run with a ringdown frame above the threshold and one below it
C24_Witness ==
    /\ Merged
    /\ pc = "done"
    /\ \E i, j \in 1..Len(RingdownFrames(result)) :
          /\ RingdownFrames(result)[i].phase = 2
          /\ RingdownFrames(result)[i].gw.amplitude > AmplitudeEps
          /\ RingdownFrames(result)[j].phase = 3
          /\ RingdownFrames(result)[j].gw.amplitude = 0

---------------------------------------------------------------------------
(* Properties of compute_remnant                                           *)

\* C25: whenever merger is detected, compute_remnant yields a finite remnant
\* position and velocity, also when the relative position and the relative
\* velocity of the merging bodies are parallel or zero (r x v = 0).
C25_RemnantFinite ==
    (out.of = "compute_remnant"
       /\ should_merge(probe.bh1, probe.bh2, DefaultCriticalFactor)) =>
        /\ Finite3(out.value.position)
        /\ Finite3(out.value.velocity)

---------------------------------------------------------------------------
(* Properties of the frame search of CollisionTimeline::interpolate        *)

\* C26: CollisionTimeline::interpolate terminates and returns for every
\* timeline with at least one frame and every t, a timeline of exactly one
\* frame included.
C26_Returns ==
    (pc = "built" /\ query.asked /\ Len(timeline.frames) >= 1) => query.returns

---------------------------------------------------------------------------
(* Properties of the frames that interpolate blends                        *)

\* lo and hi after the binary search of interpolate(t) on the timeline tl
SearchOf(tl, t) ==
    SearchFrames(tl.frames, ClampTime(t, tl.total_duration), 0, Len(tl.frames) - 1)

\* interpolate(t) passes both early returns and reaches the blending code with
\* the bracket s
BlendsWith(tl, t, s) ==
    /\ s.returns
    /\ s.lo # s.hi
    /\ ~(ClampTime(t, tl.total_duration) <= tl.frames[s.lo + 1].time)
    /\ ~(ClampTime(t, tl.total_duration) >= tl.frames[s.hi + 1].time)

\* the last call of interpolate has reached the blending code
Blending ==
    /\ pc = "built"
    /\ query.asked
    /\ timeline.frames # <<>>
    /\ BlendsWith(timeline, query.t, SearchOf(timeline, query.t))

\* the two frames of the bracket s differ in time and agree in num_black_holes
Blendable(tl, s) ==
    /\ tl.frames[s.lo + 1].time # tl.frames[s.hi + 1].time
    /\ tl.frames[s.lo + 1].num_black_holes = tl.frames[s.hi + 1].num_black_holes

\* the first ringdown frame has the time of the merger frame
RingdownStartsAtMerger ==
    (Merged /\ Len(RingdownFrames(result)) >= 1) =>
        /\ RingdownFrames(result)[1].time = MergerFrame(result).time
        /\ pc = "built" =>
              timeline.frames[result.num_inspiral_frames + 1].time
                = timeline.frames[result.num_inspiral_frames].time

\* C27: on a timeline built from a run_simulation result with ringdown_samples
\* >= 1, interpolate never blends a two-body frame with a one-body frame and
\* never divides by a zero time difference: the first ringdown frame has the
\* time of the merger frame, and whenever the blending code is reached the two
\* bracketing frames have different times and the same num_black_holes.
C27_Blendable ==
    config.ringdown_samples >= 1 =>
        /\ RingdownStartsAtMerger
        /\ Blending => Blendable(timeline, SearchOf(timeline, query.t))

\* a call that blends two ringdown frames of a timeline with a merger frame
C27_Witness ==
    /\ config.ringdown_samples >= 1
    /\ Blending
    /\ timeline.merger_frame_index >= 0
    /\ query.data.num_black_holes = 1
    /\ query.t > timeline.merger_time
    /\ timeline.frames[SearchOf(timeline, query.t).lo + 1].time < query.data.time
    /\ query.data.time < timeline.frames[SearchOf(timeline, query.t).hi + 1].time

---------------------------------------------------------------------------
(* Properties of the merger check at the head of the inspiral loop         *)

\* should_merge with the default factor on the body state a frame holds
MergesAt(f) == should_merge(f.bh1, f.bh2, DefaultCriticalFactor)

\* the initial state of the configuration cfg satisfies should_merge
MergesAtStart(cfg) ==
    should_merge(init_binary(cfg.binary)[1], init_binary(cfg.binary)[2],
                 DefaultCriticalFactor)

\* frames tagged 0 hold states that do not merge, the frame tagged 1 one that does
TagsFollowCheck ==
    \A i \in 1..Len(result.frames) :
        /\ result.frames[i].phase = 0 => ~MergesAt(result.frames[i])
        /\ result.frames[i].phase = 1 => MergesAt(result.frames[i])

\* past the loop: a merger frame at time 0, no inspiral frame, no RK4 step
MergedAtStart ==
    (pc # "inspiral" /\ MergesAtStart(config)) =>
        /\ step_count = 0
        /\ result.merger_occurred
        /\ result.merger_time = 0
        /\ Len(result.frames) >= 1
        /\ result.frames[1].phase = 1
        /\ result.frames[1].time = 0
        /\ ~HasTag(result.frames, 0)

\* C28: every frame tagged 0 holds a body state for which should_merge (default
\* factor) is false and the frame tagged 1 one for which it is true; a merging
\* state is never recorded as an inspiral frame; when max_time > 0, an initial
\* state that already satisfies should_merge yields a merger frame at time 0
\* with zero inspiral frames and zero RK4 steps.
C28_CheckFirst ==
    /\ TagsFollowCheck
    /\ config.max_time > 0 => MergedAtStart

\* a returned run whose initial state merges, and one frame tagged 1 at time 0
C28_Witness ==
    /\ pc = "done"
    /\ MergesAtStart(config)
    /\ config.max_time > 0
    /\ result.frames[1].phase = 1
    /\ result.frames[1].time = 0
    /\ MergesAt(result.frames[1])
    /\ step_count = 0

\* C28 as stated: an initial state that satisfies should_merge always yields
\* the merger frame at time 0
C28_AsStated == TagsFollowCheck /\ MergedAtStart

---------------------------------------------------------------------------
(* Properties of the frame counts of a returned result                     *)

\* the number of frames of f tagged 0 or 1
CountInspiral(f) == Cardinality({i \in 1..Len(f) : f[i].phase \in {0, 1}})

\* C29: on return from run_simulation, num_inspiral_frames is the number of
\* frames tagged 0 or 1; the merger frame, when present, is counted and is the
\* frame at index num_inspiral_frames - 1, and the frames before it are all
\* tagged 0; for ringdown_samples >= 0, num_inspiral_frames +
\* num_ringdown_frames is the total number of frames.
C29_FrameCounts ==
    Returned =>
        /\ result.num_inspiral_frames = CountInspiral(result.frames)
        /\ result.merger_occurred =>
              /\ result.num_inspiral_frames >= 1
              /\ result.frames[result.num_inspiral_frames].phase = 1
        /\ \A i \in 1..(result.num_inspiral_frames - 1) : result.frames[i].phase = 0
        /\ config.ringdown_samples >= 0 =>
              result.num_inspiral_frames + result.num_ringdown_frames
                = Len(result.frames)

\* a returned run with inspiral frames, the merger frame and ringdown frames
C29_Witness ==
    /\ pc = "done"
    /\ result.merger_occurred
    /\ result.num_inspiral_frames >= 3
    /\ result.num_ringdown_frames >= 2
    /\ Len(result.frames) = result.num_inspiral_frames + result.num_ringdown_frames
    /\ result.frames[result.num_inspiral_frames].phase = 1

---------------------------------------------------------------------------
(* Properties of the order of the ringdown phase tags                      *)

\* no frame of f tagged 2 comes after a frame of f tagged 3
NeverBackToRinging(f) ==
    \A i, j \in 1..Len(f) : (i < j /\ f[i].phase = 3) => f[j].phase = 3

=============================================================================
